---- MODULE Spec2Model ----
(***************************************************************************)
(* Model of the bevy_gizmos line pipeline:                                 *)
(*   crates/bevy_gizmos/src/gizmos.rs  the immediate-mode drawing API      *)
(*   crates/bevy_gizmos/src/lib.rs     storage -> LineGizmo asset compile  *)
(*                                                                         *)
(* f32 values are fixed-point integers (Unit stands for 1.0), with one     *)
(* reserved value NaN that every arithmetic operation propagates. Angles   *)
(* are integers in units of 1/TAU of a full turn.                          *)
(*                                                                         *)
(* Record constructors list their fields in the order in which the names   *)
(* first occur in this module, the order in which TLC keeps them.          *)
(***************************************************************************)
EXTENDS Integers, Sequences, FiniteSets, TLC

\* ------------------------------------------------------------------ bounds

\* drawing calls issued over one behaviour
MaxCalls == 2
\* runs of update_gizmo_meshes over one behaviour
MaxCompiles == 3

\* ------------------------------------------------------- f32 and vectors

Unit == 1000
NaN == 999999999
TAU == 96
DEFAULT_CIRCLE_SEGMENTS == 32

IsNaN(x) == x = NaN

FAdd(a, b) == IF IsNaN(a) \/ IsNaN(b) THEN NaN ELSE a + b

FSub(a, b) == IF IsNaN(a) \/ IsNaN(b) THEN NaN ELSE a - b

FNeg(a) == IF IsNaN(a) THEN NaN ELSE 0 - a

\* product of two fixed-point values
FMul(a, b) == IF IsNaN(a) \/ IsNaN(b) THEN NaN ELSE (a * b) \div Unit

\* product of a fixed-point value with a plain integer factor
FScale(k, a) == IF IsNaN(a) THEN NaN ELSE k * a

Abs(a) == IF a < 0 THEN 0 - a ELSE a

CeilDiv(a, b) == (a + b - 1) \div b

\* sine of an angle in [0, TAU/2] (Bhaskara's rational approximation; exact
\* at 0, TAU/12, TAU/4, 5 TAU/12 and TAU/2)
SinHalfTurn(t) ==
    LET q == 2 * t * (TAU - 2 * t)
    IN  (16 * q * Unit) \div (5 * TAU * TAU - 4 * q)

Sin(angle) ==
    IF IsNaN(angle) THEN NaN
    ELSE LET t == angle % TAU
         IN  IF 2 * t <= TAU THEN SinHalfTurn(t) ELSE 0 - SinHalfTurn(t - TAU \div 2)

Cos(angle) == IF IsNaN(angle) THEN NaN ELSE Sin(angle + TAU \div 4)

V2(x, y) == [x |-> x, y |-> y]

V3(x, y, z) == [x |-> x, y |-> y, z |-> z]

extend(vec2, z) == V3(vec2.x, vec2.y, z)

Vec2Add(a, b) == V2(FAdd(a.x, b.x), FAdd(a.y, b.y))

Vec3Add(a, b) == V3(FAdd(a.x, b.x), FAdd(a.y, b.y), FAdd(a.z, b.z))

Vec2Mul(a, s) == V2(FMul(a.x, s), FMul(a.y, s))

\* Vec3::to_array
to_array(vec3) == <<vec3.x, vec3.y, vec3.z>>

\* a rotation (Quat, Mat2) is the matrix of its rows; entries are plain integers
\* for the axis-aligned rotations and products are taken as the floats take them
\* (0 * NaN is NaN)
Dot3(row, v) == FAdd(FAdd(FScale(row[1], v.x), FScale(row[2], v.y)), FScale(row[3], v.z))

QuatMulVec3(q, v) == V3(Dot3(q[1], v), Dot3(q[2], v), Dot3(q[3], v))

QuatIDENTITY == << <<1, 0, 0>>, <<0, 1, 0>>, <<0, 0, 1>> >>

AxisX == V3(Unit, 0, 0)

AxisY == V3(0, Unit, 0)

AxisZ == V3(0, 0, Unit)

AXES == <<AxisX, AxisY, AxisZ>>

\* Quat::from_rotation_arc(Vec3::Z, normal) for the axis normals
from_rotation_arc_Z(normal) ==
    CASE normal = AxisZ -> QuatIDENTITY
      [] normal = AxisX -> << <<0, 0, 1>>, <<0, 1, 0>>, <<-1, 0, 0>> >>
      [] normal = AxisY -> << <<1, 0, 0>>, <<0, 0, 1>>, <<0, -1, 0>> >>

\* Mat2::from_angle(angle) * vec2
Mat2Rotate(angle, v) ==
    V2(FSub(FMul(Cos(angle), v.x), FMul(Sin(angle), v.y)),
       FAdd(FMul(Sin(angle), v.x), FMul(Cos(angle), v.y)))

\* ---------------------------------------------------------------- colors

\* Color::as_linear_rgba_f32: the sRGB channels are decoded, alpha is kept
SrgbToLinear(v) ==
    CASE v = 0 -> 0
      [] v = 500 -> 214
      [] v = Unit -> Unit

Rgba(r, g, b, a) == [a |-> a, b |-> b, r |-> r, g |-> g]

as_linear_rgba_f32(color) ==
    <<SrgbToLinear(color.r), SrgbToLinear(color.g), SrgbToLinear(color.b), color.a>>

GREEN == Rgba(0, Unit, 0, Unit)

GRAY == Rgba(500, 500, 500, Unit)

\* the restart marker pair
NAN3 == <<NaN, NaN, NaN>>

NAN4 == <<NaN, NaN, NaN, NaN>>

\* ------------------------------------------------------- shape samplers

Vec2_from_sin_cos(angle) == V2(Sin(angle), Cos(angle))

\* variant: the sampler stops one point short of the full turn
circle_inner_open(radius, segments) ==
    [k \in 1..segments |->
        LET i == k - 1
            angle == IF segments = 0 THEN NaN ELSE (i * TAU) \div segments
        IN  Vec2Mul(Vec2_from_sin_cos(angle), radius)]

\* i as f32 * TAU / segments as f32, 0/0 being NaN
circle_inner(radius, segments) ==
    [k \in 1..(segments + 1) |->
        LET i == k - 1
            angle == IF segments = 0 THEN NaN ELSE (i * TAU) \div segments
        IN  Vec2Mul(Vec2_from_sin_cos(angle), radius)]

arc_inner(direction_angle, arc_angle, radius, segments) ==
    [k \in 1..(segments + 1) |->
        LET i == k - 1
            start == direction_angle - arc_angle \div 2
            step == IF segments = 0 THEN NaN ELSE arc_angle \div segments
            angle == FAdd(start, FScale(i, step))
        IN  Vec2Mul(Vec2_from_sin_cos(angle), radius)]

rect_inner(size) ==
    LET half_size == V2(size.x \div 2, size.y \div 2)
        tl == V2(FNeg(half_size.x), half_size.y)
        tr == V2(half_size.x, half_size.y)
        bl == V2(FNeg(half_size.x), FNeg(half_size.y))
        br == V2(half_size.x, FNeg(half_size.y))
    IN  <<tl, tr, br, bl>>

\* ((arc_angle.abs() / TAU) * DEFAULT_CIRCLE_SEGMENTS as f32).ceil() as usize
arc_default_segments(arc_angle) == CeilDiv(Abs(arc_angle) * DEFAULT_CIRCLE_SEGMENTS, TAU)

\* TransformPoint::transform_point of a translation-and-rotation transform
transform_point(transform, v) ==
    Vec3Add(transform.translation, QuatMulVec3(transform.rotation, v))

\* ---------------------------------------------------------- GizmoBuffer

EmptyBuffer ==
    [list_positions |-> <<>>, list_colors |-> <<>>,
     strip_positions |-> <<>>, strip_colors |-> <<>>]

MapSeq(Op(_), s) == [i \in 1..Len(s) |-> Op(s[i])]

Repeat(v, n) == [i \in 1..n |-> v]

\* variant: one entry short
Resize_short(s, n, v) ==
    IF n - 1 <= Len(s) THEN SubSeq(s, 1, n - 1) ELSE s \o Repeat(v, n - 1 - Len(s))

\* Vec::resize
Resize(s, n, v) ==
    IF n <= Len(s) THEN SubSeq(s, 1, n) ELSE s \o Repeat(v, n - Len(s))

\* variant: the positions are closed by a restart marker, as a strip is
extend_list_positions_terminated(b, positions) ==
    [b EXCEPT !.list_positions = @ \o MapSeq(to_array, positions) \o <<NAN3>>]

extend_list_positions(b, positions) ==
    [b EXCEPT !.list_positions = @ \o MapSeq(to_array, positions)]

extend_list_colors(b, colors) ==
    [b EXCEPT !.list_colors = @ \o MapSeq(as_linear_rgba_f32, colors)]

\* variant: one color too few is repeated
add_list_color_short(b, color, count) ==
    [b EXCEPT !.list_colors = @ \o Repeat(as_linear_rgba_f32(color), count - 1)]

add_list_color(b, color, count) ==
    [b EXCEPT !.list_colors = @ \o Repeat(as_linear_rgba_f32(color), count)]

\* variant: the chained restart marker is left out
extend_strip_positions_unterminated(b, positions) ==
    [b EXCEPT !.strip_positions = @ \o MapSeq(to_array, positions)]

\* variant: a strip of fewer than two points gets no marker
extend_strip_positions_short(b, positions) ==
    [b EXCEPT !.strip_positions =
        IF Len(positions) < 2 THEN @ \o MapSeq(to_array, positions)
        ELSE @ \o MapSeq(to_array, positions) \o <<NAN3>>]

extend_strip_positions(b, positions) ==
    [b EXCEPT !.strip_positions = @ \o MapSeq(to_array, positions) \o <<NAN3>>]

\* ------------------------------------------------- Gizmos drawing calls
\* Each takes the producer's buffer b and the enabled flag of the borrowed
\* config, and yields the buffer after the call.

\* variant: the flag is not looked at
line_unguarded(b, enabled, start, end, color) ==
    add_list_color(extend_list_positions(b, <<start, end>>), color, 2)

\* variant: the end point is left to the next call, as in a strip
line_start_only(b, enabled, start, end, color) ==
    IF ~enabled THEN b
    ELSE add_list_color(extend_list_positions(b, <<start>>), color, 1)

line(b, enabled, start, end, color) ==
    IF ~enabled THEN b
    ELSE add_list_color(extend_list_positions(b, <<start, end>>), color, 2)

line_gradient(b, enabled, start, end, start_color, end_color) ==
    IF ~enabled THEN b
    ELSE extend_list_colors(extend_list_positions(b, <<start, end>>),
                            <<start_color, end_color>>)

ray(b, enabled, start, vector, color) ==
    IF ~enabled THEN b
    ELSE line(b, enabled, start, Vec3Add(start, vector), color)

ray_gradient(b, enabled, start, vector, start_color, end_color) ==
    IF ~enabled THEN b
    ELSE line_gradient(b, enabled, start, Vec3Add(start, vector), start_color, end_color)

\* variant: the restart marker pair goes in front of the points
linestrip_marker_first(b, enabled, positions, color) ==
    IF ~enabled THEN b
    ELSE [b EXCEPT
            !.strip_positions = @ \o <<NAN3>> \o MapSeq(to_array, positions),
            !.strip_colors =
                @ \o <<NAN4>> \o Repeat(as_linear_rgba_f32(color), Len(positions))]

linestrip(b, enabled, positions, color) ==
    IF ~enabled THEN b
    ELSE LET b1 == extend_strip_positions(b, positions)
             len == Len(b1.strip_positions)
         IN  [b1 EXCEPT !.strip_colors =
                 Resize(@, len - 1, as_linear_rgba_f32(color)) \o <<NAN4>>]

\* points: a sequence of <<position, color>>
linestrip_gradient(b, enabled, points) ==
    IF ~enabled THEN b
    ELSE [b EXCEPT
            !.strip_positions =
                @ \o [i \in 1..Len(points) |-> to_array(points[i][1])] \o <<NAN3>>,
            !.strip_colors =
                @ \o [i \in 1..Len(points) |-> as_linear_rgba_f32(points[i][2])] \o <<NAN4>>]

rect(b, enabled, position, rotation, size, color) ==
    IF ~enabled THEN b
    ELSE LET c == [i \in 1..4 |->
                      Vec3Add(position, QuatMulVec3(rotation, extend(rect_inner(size)[i], 0)))]
         IN  linestrip(b, enabled, <<c[1], c[2], c[3], c[4], c[1]>>, color)

\* variant: the early return on a disabled config is left out
cuboid_unguarded(b, enabled, transform, color) ==
    LET r == rect_inner(V2(Unit, Unit))
        f == [i \in 1..4 |-> transform_point(transform, extend(r[i], Unit \div 2))]
        k == [i \in 1..4 |-> transform_point(transform, extend(r[i], 0 - Unit \div 2))]
        b1 == linestrip(b, enabled, <<f[1], f[2], f[3], f[4], f[1],
                                      k[1], k[2], k[3], k[4], k[1]>>, color)
    IN  add_list_color(extend_list_positions(b1, <<f[2], k[2], f[3], k[3], f[4], k[4]>>),
                       color, 6)

\* variant: the back face is walked from its top right corner
cuboid_back_from_tr(b, enabled, transform, color) ==
    IF ~enabled THEN b
    ELSE LET r == rect_inner(V2(Unit, Unit))
             f == [i \in 1..4 |-> transform_point(transform, extend(r[i], Unit \div 2))]
             k == [i \in 1..4 |-> transform_point(transform, extend(r[i], 0 - Unit \div 2))]
             strip_positions == <<f[1], f[2], f[3], f[4], f[1],
                                  k[2], k[3], k[4], k[1], k[2]>>
             list_positions == <<f[2], k[2], f[3], k[3], f[4], k[4]>>
             b1 == linestrip(b, enabled, strip_positions, color)
         IN  add_list_color(extend_list_positions(b1, list_positions), color, 6)

cuboid(b, enabled, transform, color) ==
    IF ~enabled THEN b
    ELSE LET r == rect_inner(V2(Unit, Unit))
             f == [i \in 1..4 |-> transform_point(transform, extend(r[i], Unit \div 2))]
             k == [i \in 1..4 |-> transform_point(transform, extend(r[i], 0 - Unit \div 2))]
             strip_positions == <<f[1], f[2], f[3], f[4], f[1],
                                  k[1], k[2], k[3], k[4], k[1]>>
             list_positions == <<f[2], k[2], f[3], k[3], f[4], k[4]>>
             b1 == linestrip(b, enabled, strip_positions, color)
         IN  add_list_color(extend_list_positions(b1, list_positions), color, 6)

line_2d(b, enabled, start, end, color) ==
    IF ~enabled THEN b
    ELSE line(b, enabled, extend(start, 0), extend(end, 0), color)

line_gradient_2d(b, enabled, start, end, start_color, end_color) ==
    IF ~enabled THEN b
    ELSE line_gradient(b, enabled, extend(start, 0), extend(end, 0), start_color, end_color)

linestrip_2d(b, enabled, positions, color) ==
    IF ~enabled THEN b
    ELSE linestrip(b, enabled, [i \in 1..Len(positions) |-> extend(positions[i], 0)], color)

linestrip_gradient_2d(b, enabled, positions) ==
    IF ~enabled THEN b
    ELSE linestrip_gradient(b, enabled,
            [i \in 1..Len(positions) |-> <<extend(positions[i][1], 0), positions[i][2]>>])

ray_2d(b, enabled, start, vector, color) ==
    IF ~enabled THEN b
    ELSE line_2d(b, enabled, start, Vec2Add(start, vector), color)

ray_gradient_2d(b, enabled, start, vector, start_color, end_color) ==
    IF ~enabled THEN b
    ELSE line_gradient_2d(b, enabled, start, Vec2Add(start, vector), start_color, end_color)

rect_2d(b, enabled, position, rotation, size, color) ==
    IF ~enabled THEN b
    ELSE LET c == [i \in 1..4 |-> Vec2Add(position, Mat2Rotate(rotation, rect_inner(size)[i]))]
         IN  linestrip_2d(b, enabled, <<c[1], c[2], c[3], c[4], c[1]>>, color)

\* ------------------------------------------------------------- builders

NoBuilder == [kind |-> "none"]

CircleBuilder(position, normal, radius, color) ==
    [normal |-> normal, color |-> color, radius |-> radius, segments |-> DEFAULT_CIRCLE_SEGMENTS,
     position |-> position, kind |-> "circle"]

SphereBuilder(position, rotation, radius, color) ==
    [color |-> color, radius |-> radius, rotation |-> rotation, position |-> position,
     kind |-> "sphere", circle_segments |-> DEFAULT_CIRCLE_SEGMENTS]

Circle2dBuilder(position, radius, color) ==
    [color |-> color, radius |-> radius, segments |-> DEFAULT_CIRCLE_SEGMENTS,
     position |-> position, kind |-> "circle_2d"]

\* segments: Option<usize> is the pair has_segments, segments
Arc2dBuilder(position, direction_angle, arc_angle, radius, color) ==
    [color |-> color, radius |-> radius, segments |-> 0,
     direction_angle |-> direction_angle, arc_angle |-> arc_angle, position |-> position,
     kind |-> "arc_2d", has_segments |-> FALSE]

\* CircleBuilder::segments, Circle2dBuilder::segments, Arc2dBuilder::segments,
\* SphereBuilder::circle_segments
\* variant: a count is kept only if none was set before
builder_segments_first(bld, segments) ==
    CASE bld.kind = "sphere" ->
            IF bld.circle_segments = DEFAULT_CIRCLE_SEGMENTS
            THEN [bld EXCEPT !.circle_segments = segments] ELSE bld
      [] bld.kind = "arc_2d" ->
            IF bld.has_segments THEN bld
            ELSE [bld EXCEPT !.has_segments = TRUE, !.segments = segments]
      [] OTHER ->
            IF bld.segments = DEFAULT_CIRCLE_SEGMENTS
            THEN [bld EXCEPT !.segments = segments] ELSE bld

builder_segments(bld, segments) ==
    CASE bld.kind = "sphere" -> [bld EXCEPT !.circle_segments = segments]
      [] bld.kind = "arc_2d" -> [bld EXCEPT !.has_segments = TRUE, !.segments = segments]
      [] OTHER -> [bld EXCEPT !.segments = segments]

CircleBuilderDrop(b, enabled, bld) ==
    IF ~enabled THEN b
    ELSE LET rotation == from_rotation_arc_Z(bld.normal)
             pts == circle_inner(bld.radius, bld.segments)
             positions == [i \in 1..Len(pts) |->
                              Vec3Add(bld.position, QuatMulVec3(rotation, extend(pts[i], 0)))]
         IN  linestrip(b, enabled, positions, bld.color)

\* variant: the three circles are drawn whatever the flag
SphereBuilderDrop_unguarded(b, enabled, bld) ==
    LET circ(i) == builder_segments(
                       CircleBuilder(bld.position, QuatMulVec3(bld.rotation, AXES[i]),
                                     bld.radius, bld.color),
                       bld.circle_segments)
        b1 == CircleBuilderDrop(b, TRUE, circ(1))
        b2 == CircleBuilderDrop(b1, TRUE, circ(2))
    IN  CircleBuilderDrop(b2, TRUE, circ(3))

\* variant: the three circles keep their default segment count
SphereBuilderDrop_default_segments(b, enabled, bld) ==
    IF ~enabled THEN b
    ELSE LET circ(i) == CircleBuilder(bld.position, QuatMulVec3(bld.rotation, AXES[i]),
                                      bld.radius, bld.color)
             b1 == CircleBuilderDrop(b, enabled, circ(1))
             b2 == CircleBuilderDrop(b1, enabled, circ(2))
         IN  CircleBuilderDrop(b2, enabled, circ(3))

\* one circle builder per axis, each given the segment count and dropped at once
SphereBuilderDrop(b, enabled, bld) ==
    IF ~enabled THEN b
    ELSE LET circ(i) == builder_segments(
                            CircleBuilder(bld.position, QuatMulVec3(bld.rotation, AXES[i]),
                                          bld.radius, bld.color),
                            bld.circle_segments)
             b1 == CircleBuilderDrop(b, enabled, circ(1))
             b2 == CircleBuilderDrop(b1, enabled, circ(2))
         IN  CircleBuilderDrop(b2, enabled, circ(3))

Circle2dBuilderDrop(b, enabled, bld) ==
    IF ~enabled THEN b
    ELSE LET pts == circle_inner(bld.radius, bld.segments)
             positions == [i \in 1..Len(pts) |-> Vec2Add(pts[i], bld.position)]
         IN  linestrip_2d(b, enabled, positions, bld.color)

Arc2dBuilderDrop(b, enabled, bld) ==
    IF ~enabled THEN b
    ELSE LET segments == IF bld.has_segments THEN bld.segments
                         ELSE arc_default_segments(bld.arc_angle)
             pts == arc_inner(bld.direction_angle, bld.arc_angle, bld.radius, segments)
             positions == [i \in 1..Len(pts) |-> Vec2Add(pts[i], bld.position)]
         IN  linestrip_2d(b, enabled, positions, bld.color)

builder_drop(b, enabled, bld) ==
    CASE bld.kind = "circle" -> CircleBuilderDrop(b, enabled, bld)
      [] bld.kind = "sphere" -> SphereBuilderDrop(b, enabled, bld)
      [] bld.kind = "circle_2d" -> Circle2dBuilderDrop(b, enabled, bld)
      [] bld.kind = "arc_2d" -> Arc2dBuilderDrop(b, enabled, bld)

\* -------------------------------------------------- compile (lib.rs)

MapPut(m, k, v) == [x \in (DOMAIN m) \cup {k} |-> IF x = k THEN v ELSE m[x]]

\* variant: the map is cleared
MapRemove_all(m, k) == <<>>

MapRemove(m, k) == [x \in (DOMAIN m) \ {k} |-> m[x]]

LineGizmo_unflagged(positions, colors, strip) ==
    [positions |-> positions, colors |-> colors, strip |-> FALSE]

LineGizmo(positions, colors, strip) ==
    [positions |-> positions, colors |-> colors, strip |-> strip]

\* update_gizmo_meshes runs the same three-way branch for the list channel
\* (strip = FALSE) and for the strip channel (strip = TRUE) of group g. c holds
\* the resources the system borrows: assets (Assets<LineGizmo>), map
\* (handles.list or handles.strip), positions and colors (the channel's arrays
\* in GizmoStorage), next (the index the next Assets::add hands out), panicked.

\* the channel is empty: handles.X.remove(&TypeId::of::<T>()). The map held the
\* only strong handle, so dropping it releases the record.
channel_remove_stale(c, g, strip) == c

\* variant: the record is released but its handle stays in the map
channel_remove_dangling(c, g, strip) ==
    [c EXCEPT !.assets = IF g \in DOMAIN c.map THEN MapRemove(@, c.map[g]) ELSE @]

channel_remove(c, g, strip) ==
    [c EXCEPT !.map = MapRemove(@, g),
              !.assets = IF g \in DOMAIN c.map THEN MapRemove(@, c.map[g]) ELSE @]

\* the channel is non-empty and no handle is stored: a LineGizmo with the
\* channel's arrays taken out of the store is added and its handle stored
channel_add(c, g, strip) ==
    [c EXCEPT !.assets = MapPut(@, c.next, LineGizmo(c.positions, c.colors, strip)),
              !.map = MapPut(@, g, c.next),
              !.next = @ + 1,
              !.positions = <<>>,
              !.colors = <<>>]

channel_overwrite_readd(c, g, strip) ==
    channel_add([c EXCEPT !.assets = MapRemove(@, c.map[g])], g, strip)

channel_overwrite_append(c, g, strip) ==
    [c EXCEPT !.assets = [@ EXCEPT ![c.map[g]] =
                             [@ EXCEPT !.positions = @ \o c.positions,
                                       !.colors = @ \o c.colors]],
              !.positions = <<>>,
              !.colors = <<>>]

channel_overwrite_copy(c, g, strip) ==
    [c EXCEPT !.assets = [@ EXCEPT ![c.map[g]] =
                             [@ EXCEPT !.positions = c.positions,
                                       !.colors = c.colors]]]

\* the channel is non-empty and a handle is stored: get_mut(handle).unwrap(),
\* then the record's arrays are replaced by the channel's, taken out of the store
channel_overwrite(c, g, strip) ==
    IF c.map[g] \in DOMAIN c.assets
    THEN [c EXCEPT !.assets = [@ EXCEPT ![c.map[g]] =
                                  [@ EXCEPT !.positions = c.positions,
                                            !.colors = c.colors]],
                   !.positions = <<>>,
                   !.colors = <<>>]
    ELSE [c EXCEPT !.panicked = TRUE]

update_channel(c, g, strip) ==
    IF c.positions = <<>>
    THEN channel_remove(c, g, strip)
    ELSE IF g \in DOMAIN c.map
         THEN channel_overwrite(c, g, strip)
         ELSE channel_add(c, g, strip)

\* ------------------------------------------------------- draw (lib.rs)
\* A GPU buffer is the sequence of its items; byte offsets and strides are
\* multiples of the item size.

\* VertexFormat::Float32x3.size()
Float32x3_size == 12

\* VertexFormat::Float32x4.size()
Float32x4_size == 16

\* RenderAsset::prepare_asset (positions.len() as u32: the lengths reached here
\* are far below 2^32, so the cast changes nothing)
prepare_asset(line_gizmo) ==
    [strip |-> line_gizmo.strip,
     position_buffer |-> line_gizmo.positions,
     color_buffer |-> line_gizmo.colors,
     vertex_count |-> Len(line_gizmo.positions)]

\* Buffer::size in bytes
buffer_size(buf, item_size) == Len(buf) * item_size

\* Buffer::slice(from..to) in bytes
slice(buf, from, to, item_size) ==
    SubSeq(buf, from \div item_size + 1, to \div item_size)

\* a byte range of a buffer of size bytes, as Buffer::slice is given it
Range(from, to, size) == [size |-> size, from |-> from, to |-> to]

\* what render leaves when it returns before any buffer is set
NoDraw(result) ==
    [result |-> result, draws |-> 0, instances |-> 0, vertex_buffers |-> <<>>,
     slices |-> <<>>]

\* variant: the second view of each buffer starts at offset 0 too
render_unshifted(gpu) ==
    IF gpu.vertex_count < 2 THEN NoDraw("Success")
    ELSE IF gpu.strip
    THEN LET psize == buffer_size(gpu.position_buffer, Float32x3_size)
             pview == psize - Float32x3_size
             csize == buffer_size(gpu.color_buffer, Float32x4_size)
             cview == csize - Float32x4_size
             p0 == slice(gpu.position_buffer, 0, pview, Float32x3_size)
             c0 == slice(gpu.color_buffer, 0, cview, Float32x4_size)
         IN  [result |-> "Success", draws |-> 1,
              instances |-> (IF gpu.vertex_count > 1 THEN gpu.vertex_count ELSE 1) - 1,
              vertex_buffers |-> <<p0, p0, c0, c0>>,
              slices |-> <<Range(0, pview, psize), Range(0, pview, psize),
                           Range(0, cview, csize), Range(0, cview, csize)>>]
    ELSE LET psize == buffer_size(gpu.position_buffer, Float32x3_size)
             csize == buffer_size(gpu.color_buffer, Float32x4_size)
         IN  [result |-> "Success", draws |-> 1,
              instances |-> gpu.vertex_count \div 2,
              vertex_buffers |-> <<gpu.position_buffer, gpu.color_buffer>>,
              slices |-> <<Range(0, psize, psize), Range(0, csize, csize)>>]

\* the buffers set and the draw issued once the vertex count is known to
\* allow it: the views of a strip leave out the last and the first item
render_views(gpu) ==
    IF gpu.strip
    THEN LET psize == buffer_size(gpu.position_buffer, Float32x3_size)
             pview == psize - Float32x3_size
             csize == buffer_size(gpu.color_buffer, Float32x4_size)
             cview == csize - Float32x4_size
         IN  [result |-> "Success", draws |-> 1,
              instances |-> (IF gpu.vertex_count > 1 THEN gpu.vertex_count ELSE 1) - 1,
              vertex_buffers |->
                 <<slice(gpu.position_buffer, 0, pview, Float32x3_size),
                   slice(gpu.position_buffer, Float32x3_size, psize, Float32x3_size),
                   slice(gpu.color_buffer, 0, cview, Float32x4_size),
                   slice(gpu.color_buffer, Float32x4_size, csize, Float32x4_size)>>,
              slices |-> <<Range(0, pview, psize), Range(Float32x3_size, psize, psize),
                           Range(0, cview, csize), Range(Float32x4_size, csize, csize)>>]
    ELSE LET psize == buffer_size(gpu.position_buffer, Float32x3_size)
             csize == buffer_size(gpu.color_buffer, Float32x4_size)
         IN  [result |-> "Success", draws |-> 1,
              instances |-> gpu.vertex_count \div 2,
              vertex_buffers |-> <<gpu.position_buffer, gpu.color_buffer>>,
              slices |-> <<Range(0, psize, psize), Range(0, csize, csize)>>]

\* variant: the buffers are set and the draw issued whatever the vertex count
render_unchecked(gpu) == render_views(gpu)

\* DrawLineGizmo::render once the prepared asset is found: the result, the
\* vertex buffers set on slots 0.. with the byte ranges they were sliced by,
\* and the instance count of pass.draw(0..6, 0..instances); below two vertices
\* it returns Success before any buffer is set
render(gpu) ==
    IF gpu.vertex_count < 2 THEN NoDraw("Success") ELSE render_views(gpu)

\* DrawLineGizmo::render: the handle of the drawn entity is looked up among the
\* prepared assets; without the asset the command fails and sets nothing
DrawLineGizmo_render(prepared, handle) ==
    IF handle \notin DOMAIN prepared THEN NoDraw("Failure")
    ELSE render(prepared[handle])

VertexAttribute(format_size, offset, shader_location) ==
    [format_size |-> format_size, offset |-> offset, shader_location |-> shader_location]

\* variant: the list layouts keep the stride of one item
line_gizmo_vertex_buffer_layouts_single(strip) ==
    IF strip
    THEN <<[array_stride |-> Float32x3_size,
            attributes |-> <<VertexAttribute(Float32x3_size, 0, 0)>>],
           [array_stride |-> Float32x3_size,
            attributes |-> <<VertexAttribute(Float32x3_size, 0, 1)>>],
           [array_stride |-> Float32x4_size,
            attributes |-> <<VertexAttribute(Float32x4_size, 0, 2)>>],
           [array_stride |-> Float32x4_size,
            attributes |-> <<VertexAttribute(Float32x4_size, 0, 3)>>]>>
    ELSE <<[array_stride |-> Float32x3_size,
            attributes |-> <<VertexAttribute(Float32x3_size, 0, 0),
                             VertexAttribute(Float32x3_size, Float32x3_size, 1)>>],
           [array_stride |-> Float32x4_size,
            attributes |-> <<VertexAttribute(Float32x4_size, 0, 2),
                             VertexAttribute(Float32x4_size, Float32x4_size, 3)>>]>>

\* the layouts of the vertex buffer slots, all stepped per instance
line_gizmo_vertex_buffer_layouts(strip) ==
    IF strip
    THEN <<[array_stride |-> Float32x3_size,
            attributes |-> <<VertexAttribute(Float32x3_size, 0, 0)>>],
           [array_stride |-> Float32x3_size,
            attributes |-> <<VertexAttribute(Float32x3_size, 0, 1)>>],
           [array_stride |-> Float32x4_size,
            attributes |-> <<VertexAttribute(Float32x4_size, 0, 2)>>],
           [array_stride |-> Float32x4_size,
            attributes |-> <<VertexAttribute(Float32x4_size, 0, 3)>>]>>
    ELSE <<[array_stride |-> Float32x3_size * 2,
            attributes |-> <<VertexAttribute(Float32x3_size, 0, 0),
                             VertexAttribute(Float32x3_size, Float32x3_size, 1)>>],
           [array_stride |-> Float32x4_size * 2,
            attributes |-> <<VertexAttribute(Float32x4_size, 0, 2),
                             VertexAttribute(Float32x4_size, Float32x4_size, 3)>>]>>

\* VertexStepMode::Instance: the slot and the item of that slot's buffer that
\* instance i reads for the attribute at a shader location
fetch_index(layouts, shader_location, i) ==
    LET slot == CHOOSE k \in 1..Len(layouts) :
                    \E a \in 1..Len(layouts[k].attributes) :
                        layouts[k].attributes[a].shader_location = shader_location
        attr == CHOOSE a \in 1..Len(layouts[slot].attributes) :
                    layouts[slot].attributes[a].shader_location = shader_location
        at == layouts[slot].attributes[attr]
    IN  [slot |-> slot,
         item |-> (i * layouts[slot].array_stride + at.offset) \div at.format_size]

\* what instance i reads at a shader location from the buffers a draw has set
fetch(draw, layouts, shader_location, i) ==
    LET at == fetch_index(layouts, shader_location, i)
    IN  draw.vertex_buffers[at.slot][at.item + 1]

\* The vertex stage (the line shader, not among the sources): an instance with
\* a NaN endpoint position yields no geometry.
suppressed(draw, layouts, i) ==
    \/ \E k \in 1..3 : IsNaN(fetch(draw, layouts, 0, i)[k])
    \/ \E k \in 1..3 : IsNaN(fetch(draw, layouts, 1, i)[k])

\* the draw of a LineGizmo record with the layouts of its pipeline
draw_of(line_gizmo) == render(prepare_asset(line_gizmo))

layouts_of(line_gizmo) == line_gizmo_vertex_buffer_layouts(line_gizmo.strip)

\* ----------------------------------------------------------------- state

Groups == {"G1", "G2"}

Producers == {"p1", "p2", "p3"}

\* the group T of each system's Gizmos<T> parameter
group_of(p) == IF p = "p3" THEN "G2" ELSE "G1"

VARIABLES
    enabled,      \* GizmoConfigStore: the enabled flag of each group's GizmoConfig
    buffer,       \* each producer's Deferred<GizmoBuffer<T>>
    builder,      \* the builder a producer holds open, or NoBuilder
    storage,      \* GizmoStorage<T> of each group
    handles,      \* LineGizmoHandles: list and strip, group -> handle
    line_gizmos,  \* Assets<LineGizmo>: handle -> LineGizmo
    next_index,   \* the handle the next Assets::add returns
    panicked,     \* an unwrap failed
    chained,      \* history: the segment count last passed to the open builder, if any
    drawn,        \* history: what each producer drew since its group's last compile
    flushed,      \* history: the buffers applied to each group's store since its last compile
    asked,        \* history: the drawing requests of each producer since its last flush,
                  \*          and how many of them were made with the group disabled
    built_enabled, \* history: the group's enabled flag when the open builder was made
    carry,        \* history: the group's last compile left drawn data uncompiled
    created,      \* history: records created per channel and group since it was last empty
    calls,        \* history: drawing calls issued
    compiles,     \* history: runs of update_gizmo_meshes
    last,         \* history: the operation of the last step and its arguments
    app,          \* App: whether it has a render sub-app, and per group whether
                  \*      GizmoStorage<T> exists, how many update_gizmo_meshes::<T> and
                  \*      extract_gizmo_data::<T> systems are scheduled, how many entries
                  \*      GizmoConfigStore holds for T
    config,       \* GizmoConfigStore: line_width and depth_bias of each group's GizmoConfig
    render_world  \* render world: the entities spawned at extraction, the groups
                  \*      extracted this frame, RenderAssets<LineGizmo>

vars == <<enabled, buffer, builder, storage, handles, line_gizmos, next_index,
          panicked, chained, drawn, flushed, asked, built_enabled, carry, created,
          calls, compiles, last, app, config, render_world>>

\* GizmoConfig::default (config.rs, not among the sources): the width and the
\* bias a group's configuration starts with
DefaultConfig == [line_width |-> 2 * Unit, depth_bias |-> 0]

\* a group init_gizmo_group has not been called for
Unregistered ==
    [has_storage |-> FALSE, update_systems |-> 0, extract_systems |-> 0,
     config_entries |-> 0]

\* the resources at their defaults, the app being a
Start(a) ==
    /\ enabled = [g \in Groups |-> TRUE]
    /\ buffer = [p \in Producers |-> EmptyBuffer]
    /\ builder = [p \in Producers |-> NoBuilder]
    /\ storage = [g \in Groups |-> EmptyBuffer]
    /\ handles = [strip |-> <<>>, list |-> <<>>]
    /\ line_gizmos = <<>>
    /\ next_index = 1
    /\ panicked = FALSE
    /\ chained = [p \in Producers |-> <<>>]
    /\ drawn = [p \in Producers |-> EmptyBuffer]
    /\ flushed = [g \in Groups |-> <<>>]
    /\ asked = [p \in Producers |-> [made |-> 0, disabled |-> 0, drew |-> 0]]
    /\ built_enabled = [p \in Producers |-> TRUE]
    /\ carry = [g \in Groups |-> FALSE]
    /\ created = [strip |-> [g \in Groups |-> 0], list |-> [g \in Groups |-> 0]]
    /\ calls = 0
    /\ compiles = 0
    /\ last = [op |-> "init"]
    /\ app = a
    /\ config = [g \in Groups |-> DefaultConfig]
    /\ render_world = [line_gizmos |-> <<>>, entities |-> <<>>, extracted |-> {}]

\* variant: the group is set up again on every call
init_gizmo_group_unguarded(a, g) ==
    LET g1 == [a.groups[g] EXCEPT !.has_storage = TRUE,
                                  !.update_systems = @ + 1,
                                  !.config_entries = 1]
        g2 == IF a.render_app THEN [g1 EXCEPT !.extract_systems = @ + 1] ELSE g1
    IN  [a EXCEPT !.groups[g] = g2]

\* AppGizmoBuilder::init_gizmo_group::<T> on the app a: nothing if
\* GizmoStorage<T> exists; else the storage is made, update_gizmo_meshes::<T>
\* is added to Last, T is registered in GizmoConfigStore and, if the app has a
\* render sub-app, extract_gizmo_data::<T> is added to ExtractSchedule
init_gizmo_group(a, g) ==
    IF a.groups[g].has_storage THEN a
    ELSE LET g1 == [a.groups[g] EXCEPT !.has_storage = TRUE,
                                       !.update_systems = @ + 1,
                                       !.config_entries = 1]
             g2 == IF a.render_app THEN [g1 EXCEPT !.extract_systems = @ + 1] ELSE g1
         IN  [a EXCEPT !.groups[g] = g2]

\* the plugin is built: no group is registered yet and the app may or may not
\* have a render sub-app
InitApp ==
    \E render_app \in BOOLEAN :
        Start([groups |-> [g \in Groups |-> Unregistered], render_app |-> render_app])

\* every group is registered in an app with a render sub-app
Init ==
    Start(init_gizmo_group(
              init_gizmo_group([groups |-> [g \in Groups |-> Unregistered],
                                render_app |-> TRUE], "G1"),
              "G2"))

\* no builder borrows a Gizmos parameter: the point between two system runs
NoBuilderOpen == \A p \in Producers : builder[p].kind = "none"

\* ---------------------------------------------------------------- inputs

PA == V3(0, 0, 0)

PB == V3(Unit, 0, 0)

PC == V3(Unit, Unit, 0)

QA == V2(0, 0)

QB == V2(Unit, Unit)

Colors == {GREEN, GRAY}

StripInputs == {<<>>, <<PA>>, <<PA, PB, PC>>}

StripInputs2 == {<<>>, <<QB, QA>>}

GradientInputs == {<<>>, << <<PB, GRAY>>, <<PA, GREEN>> >>}

GradientInputs2 == {<< <<QA, GREEN>>, <<QB, GRAY>> >>}

\* translation and rotation of the cuboid's transform
Transforms == {[translation |-> PB, rotation |-> from_rotation_arc_Z(AxisX)]}

\* direction_angle, arc_angle
Arcs == {<<TAU \div 8, 0 - TAU \div 4>>, <<0, 0>>}

SegmentChoices == {0, 4}

\* --------------------------------------------------------------- actions

En(p) == enabled[group_of(p)]

Suffix(new, old) == SubSeq(new, Len(old) + 1, Len(new))

\* d with what a call added to the buffer, old being the buffer before and new after
Drawn(d, old, new) ==
    [list_positions |-> d.list_positions \o Suffix(new.list_positions, old.list_positions),
     list_colors |-> d.list_colors \o Suffix(new.list_colors, old.list_colors),
     strip_positions |-> d.strip_positions \o Suffix(new.strip_positions, old.strip_positions),
     strip_colors |-> d.strip_colors \o Suffix(new.strip_colors, old.strip_colors)]

\* one more drawing request, made with the flag as given; changed tells whether
\* it appended anything
Asked(a, flag, changed) ==
    [made |-> a.made + 1,
     disabled |-> a.disabled + IF flag THEN 0 ELSE 1,
     drew |-> a.drew + IF changed THEN 1 ELSE 0]

\* variant: the producers of a group write one buffer together
Call_shared(p, b, what) ==
    /\ ~panicked
    /\ builder[p].kind = "none"
    /\ calls < MaxCalls
    /\ buffer' = [q \in Producers |-> IF group_of(q) = group_of(p) THEN b ELSE buffer[q]]
    /\ drawn' = [drawn EXCEPT ![p] = Drawn(@, buffer[p], b)]
    /\ asked' = [asked EXCEPT ![p] = Asked(@, En(p), b # buffer[p])]
    /\ calls' = calls + 1
    /\ last' = what
    /\ UNCHANGED <<app, config, render_world,
                   enabled, builder, storage, handles, line_gizmos, next_index,
                   panicked, chained, carry, flushed, built_enabled, created, compiles>>

\* a drawing call of producer p that leaves its buffer as b
Call(p, b, what) ==
    /\ ~panicked
    /\ builder[p].kind = "none"
    /\ calls < MaxCalls
    /\ buffer' = [buffer EXCEPT ![p] = b]
    /\ drawn' = [drawn EXCEPT ![p] = Drawn(@, buffer[p], b)]
    /\ asked' = [asked EXCEPT ![p] = Asked(@, En(p), b # buffer[p])]
    /\ calls' = calls + 1
    /\ last' = what
    /\ UNCHANGED <<app, config, render_world,
                   enabled, builder, storage, handles, line_gizmos, next_index,
                   panicked, chained, carry, flushed, built_enabled, created, compiles>>

Line(p) ==
    \E e \in {<<PA, PB>>}, color \in Colors :
        Call(p, line(buffer[p], En(p), e[1], e[2], color),
             [start |-> e[1], colors |-> <<color, color>>, end |-> e[2], p |-> p,
              op |-> "line"])

LineGradient(p) ==
    \E e \in {<<PB, PA>>}, c \in {<<GREEN, GRAY>>} :
        Call(p, line_gradient(buffer[p], En(p), e[1], e[2], c[1], c[2]),
             [start |-> e[1], colors |-> c, end |-> e[2], p |-> p,
              op |-> "line_gradient"])

Ray(p) ==
    \E start \in {PC}, vector \in {AxisY}, color \in {GRAY} :
        Call(p, ray(buffer[p], En(p), start, vector, color),
             [start |-> start, colors |-> <<color, color>>, end |-> Vec3Add(start, vector), p |-> p,
              op |-> "ray"])

RayGradient(p) ==
    \E start \in {PB}, vector \in {AxisZ}, c \in {<<GRAY, GREEN>>} :
        Call(p, ray_gradient(buffer[p], En(p), start, vector, c[1], c[2]),
             [start |-> start, colors |-> c, end |-> Vec3Add(start, vector),
              p |-> p, op |-> "ray_gradient"])

Linestrip(p) ==
    \E positions \in StripInputs, color \in {GREEN} :
        Call(p, linestrip(buffer[p], En(p), positions, color),
             [positions |-> positions, colors |-> Repeat(color, Len(positions)), p |-> p,
              op |-> "linestrip"])

LinestripGradient(p) ==
    \E points \in GradientInputs :
        Call(p, linestrip_gradient(buffer[p], En(p), points),
             [positions |-> [i \in 1..Len(points) |-> points[i][1]],
              colors |-> [i \in 1..Len(points) |-> points[i][2]],
              p |-> p,
              op |-> "linestrip_gradient"])

Rect(p) ==
    \E position \in {PC}, size \in {V2(2 * Unit, Unit)}, color \in {GRAY} :
        Call(p, rect(buffer[p], En(p), position, QuatIDENTITY, size, color),
             [colors |-> <<color>>, p |-> p, op |-> "rect"])

Cuboid(p) ==
    \E transform \in Transforms, color \in {GREEN} :
        Call(p, cuboid(buffer[p], En(p), transform, color),
             [transform |-> transform, colors |-> <<color>>, p |-> p, op |-> "cuboid"])

Line2d(p) ==
    \E e \in {<<QA, QB>>}, color \in {GRAY} :
        Call(p, line_2d(buffer[p], En(p), e[1], e[2], color),
             [start |-> extend(e[1], 0), colors |-> <<color, color>>, end |-> extend(e[2], 0),
              p |-> p,
              op |-> "line_2d"])

LineGradient2d(p) ==
    \E e \in {<<QB, QA>>}, c \in {<<GRAY, GREEN>>} :
        Call(p, line_gradient_2d(buffer[p], En(p), e[1], e[2], c[1], c[2]),
             [start |-> extend(e[1], 0), colors |-> c, end |-> extend(e[2], 0),
              p |-> p, op |-> "line_gradient_2d"])

Linestrip2d(p) ==
    \E positions \in StripInputs2, color \in {GRAY} :
        Call(p, linestrip_2d(buffer[p], En(p), positions, color),
             [positions |-> [i \in 1..Len(positions) |-> extend(positions[i], 0)],
              colors |-> Repeat(color, Len(positions)),
              p |-> p,
              op |-> "linestrip_2d"])

LinestripGradient2d(p) ==
    \E points \in GradientInputs2 :
        Call(p, linestrip_gradient_2d(buffer[p], En(p), points),
             [positions |-> [i \in 1..Len(points) |-> extend(points[i][1], 0)],
              colors |-> [i \in 1..Len(points) |-> points[i][2]],
              p |-> p,
              op |-> "linestrip_gradient_2d"])

Ray2d(p) ==
    \E start \in {QB}, vector \in {V2(0, Unit)}, color \in {GREEN} :
        Call(p, ray_2d(buffer[p], En(p), start, vector, color),
             [start |-> extend(start, 0), colors |-> <<color, color>>,
              end |-> extend(Vec2Add(start, vector), 0),
              p |-> p, op |-> "ray_2d"])

RayGradient2d(p) ==
    \E start \in {QA}, vector \in {V2(Unit, 0)}, c \in {<<GREEN, GRAY>>} :
        Call(p, ray_gradient_2d(buffer[p], En(p), start, vector, c[1], c[2]),
             [start |-> extend(start, 0), colors |-> c, end |-> extend(Vec2Add(start, vector), 0),
              p |-> p, op |-> "ray_gradient_2d"])

Rect2d(p) ==
    \E position \in {QB}, rotation \in {TAU \div 4}, size \in {V2(Unit, 2 * Unit)}, color \in {GREEN} :
        Call(p, rect_2d(buffer[p], En(p), position, rotation, size, color),
             [colors |-> <<color>>, p |-> p, op |-> "rect_2d"])

\* Gizmos::circle, sphere, circle_2d, arc_2d: the builder is made, nothing is drawn
Build(p, bld) ==
    /\ ~panicked
    /\ builder[p].kind = "none"
    /\ calls < MaxCalls
    /\ builder' = [builder EXCEPT ![p] = bld]
    /\ chained' = [chained EXCEPT ![p] = <<>>]
    /\ calls' = calls + 1
    /\ built_enabled' = [built_enabled EXCEPT ![p] = En(p)]
    /\ last' = [p |-> p, op |-> bld.kind]
    /\ UNCHANGED <<app, config, render_world,
                   enabled, buffer, storage, handles, line_gizmos, next_index,
                   panicked, drawn, carry, flushed, asked, created, compiles>>

Circle(p) ==
    \E position \in {PA}, normal \in {AxisX}, radius \in {Unit}, color \in {GREEN} :
        Build(p, CircleBuilder(position, normal, radius, color))

Sphere(p) ==
    \E position \in {PB}, radius \in {Unit}, color \in {GRAY} :
        Build(p, SphereBuilder(position, QuatIDENTITY, radius, color))

Circle2d(p) ==
    \E position \in {QB}, radius \in {2 * Unit}, color \in {GRAY} :
        Build(p, Circle2dBuilder(position, radius, color))

Arc2d(p) ==
    \E position \in {QA}, a \in Arcs, radius \in {Unit}, color \in {GREEN} :
        Build(p, Arc2dBuilder(position, a[1], a[2], radius, color))

\* the chained segments(..) or circle_segments(..) call on the open builder
Segments(p) ==
    \E segments \in SegmentChoices :
        /\ ~panicked
        /\ builder[p].kind # "none"
        /\ builder' = [builder EXCEPT ![p] = builder_segments(@, segments)]
        /\ chained' = [chained EXCEPT ![p] = <<segments>>]
        /\ last' = [segments |-> segments, p |-> p, op |-> "segments"]
        /\ UNCHANGED <<app, config, render_world,
                   enabled, buffer, storage, handles, line_gizmos, next_index,
                       panicked, drawn, carry, flushed, asked, built_enabled, created, calls, compiles>>

\* the builder goes out of scope
Drop(p) ==
    /\ ~panicked
    /\ builder[p].kind # "none"
    /\ buffer' = [buffer EXCEPT ![p] = builder_drop(@, En(p), builder[p])]
    /\ drawn' = [drawn EXCEPT ![p] = Drawn(@, buffer[p], buffer'[p])]
    /\ builder' = [builder EXCEPT ![p] = NoBuilder]
    /\ chained' = [chained EXCEPT ![p] = <<>>]
    /\ asked' = [asked EXCEPT ![p] = Asked(@, En(p), buffer'[p] # buffer[p])]
    /\ built_enabled' = [built_enabled EXCEPT ![p] = TRUE]
    /\ last' = [segments |-> chained[p], kind |-> builder[p].kind, p |-> p, op |-> "drop",
                enabled_at_build |-> built_enabled[p]]
    /\ UNCHANGED <<app, config, render_world,
                   enabled, storage, handles, line_gizmos, next_index,
                   panicked, carry, flushed, created, calls, compiles>>

\* SystemBuffer::apply: the storage after each array of the buffer is appended
\* to it, and the buffer the append leaves behind
GizmoBuffer_apply_prepend(b, st) ==
    [buffer |-> EmptyBuffer,
     storage |-> [list_positions |-> b.list_positions \o st.list_positions,
                  list_colors |-> b.list_colors \o st.list_colors,
                  strip_positions |-> b.strip_positions \o st.strip_positions,
                  strip_colors |-> b.strip_colors \o st.strip_colors]]

\* variant: the buffer takes the place of what the storage held
GizmoBuffer_apply_replace(b, st) ==
    [buffer |-> EmptyBuffer, storage |-> b]

GizmoBuffer_apply(b, st) ==
    [buffer |-> EmptyBuffer,
     storage |-> [list_positions |-> st.list_positions \o b.list_positions,
                  list_colors |-> st.list_colors \o b.list_colors,
                  strip_positions |-> st.strip_positions \o b.strip_positions,
                  strip_colors |-> st.strip_colors \o b.strip_colors]]

\* the buffer of p is applied at a sync point (exclusive world access: no system
\* runs); applying an empty buffer changes nothing and is left out
Flush(p) ==
    /\ ~panicked
    /\ NoBuilderOpen
    /\ buffer[p] # EmptyBuffer
    /\ LET r == GizmoBuffer_apply(buffer[p], storage[group_of(p)])
       IN  /\ storage' = [storage EXCEPT ![group_of(p)] = r.storage]
           /\ buffer' = [buffer EXCEPT ![p] = r.buffer]
    /\ flushed' = [flushed EXCEPT ![group_of(p)] = Append(@, [p |-> p, buffer |-> buffer[p]])]
    /\ asked' = [asked EXCEPT ![p] = [made |-> 0, disabled |-> 0, drew |-> 0]]
    /\ last' = [p |-> p, asked |-> asked[p], op |-> "flush"]
    /\ UNCHANGED <<app, config, render_world,
                   enabled, builder, handles, line_gizmos, next_index,
                   panicked, chained, drawn, carry, built_enabled, created, calls,
                   compiles>>

\* the records of the collection after that are not in the collection before,
\* by topology flag
NewRecords(before, after, strip) ==
    {h \in (DOMAIN after) \ (DOMAIN before) : after[h].strip = strip}

\* the system update_gizmo_meshes::<T> for group g, once in the Last schedule
UpdateGizmoMeshes(g) ==
    /\ ~panicked
    /\ compiles < MaxCompiles
    /\ LET c0 == [positions |-> storage[g].list_positions, colors |-> storage[g].list_colors,
                  assets |-> line_gizmos,
                  map |-> handles.list,
                  next |-> next_index, panicked |-> FALSE]
           c1 == update_channel(c0, g, FALSE)
           d0 == [positions |-> storage[g].strip_positions, colors |-> storage[g].strip_colors,
                  assets |-> c1.assets,
                  map |-> handles.strip,
                  next |-> c1.next, panicked |-> FALSE]
           d1 == IF c1.panicked THEN d0 ELSE update_channel(d0, g, TRUE)
       IN  /\ line_gizmos' = d1.assets
           /\ handles' = [strip |-> d1.map, list |-> c1.map]
           /\ storage' = [storage EXCEPT ![g] =
                   [list_positions |-> c1.positions, list_colors |-> c1.colors,
                    strip_positions |-> d1.positions, strip_colors |-> d1.colors]]
           /\ next_index' = d1.next
           /\ panicked' = (c1.panicked \/ d1.panicked)
    /\ compiles' = compiles + 1
    /\ drawn' = [p \in Producers |-> IF group_of(p) = g THEN EmptyBuffer ELSE drawn[p]]
    /\ flushed' = [flushed EXCEPT ![g] = <<>>]
    /\ carry' = [carry EXCEPT ![g] =
                    \E p \in Producers : group_of(p) = g /\ buffer[p] # EmptyBuffer]
    /\ created' =
          [strip |-> [created.strip EXCEPT ![g] =
                        IF storage[g].strip_positions = <<>> THEN 0
                        ELSE @ + Cardinality(NewRecords(line_gizmos, line_gizmos', TRUE))],
           list |-> [created.list EXCEPT ![g] =
                        IF storage[g].list_positions = <<>> THEN 0
                        ELSE @ + Cardinality(NewRecords(line_gizmos, line_gizmos', FALSE))]]
    /\ last' = [g |-> g, op |-> "update_gizmo_meshes",
                all_flushed |-> /\ ~carry[g]
                                /\ \A p \in Producers :
                                      group_of(p) = g => buffer[p] = EmptyBuffer,
                was_present |-> [strip |-> g \in DOMAIN handles.strip,
                                 list |-> g \in DOMAIN handles.list],
                was_empty |-> [strip |-> storage[g].strip_positions = <<>>,
                               list |-> storage[g].list_positions = <<>>],
                was_same |-> [strip |-> /\ g \in DOMAIN handles.strip
                                        /\ handles.strip[g] \in DOMAIN line_gizmos
                                        /\ line_gizmos[handles.strip[g]].positions
                                             = storage[g].strip_positions
                                        /\ line_gizmos[handles.strip[g]].colors
                                             = storage[g].strip_colors,
                              list |-> /\ g \in DOMAIN handles.list
                                       /\ handles.list[g] \in DOMAIN line_gizmos
                                       /\ line_gizmos[handles.list[g]].positions
                                            = storage[g].list_positions
                                       /\ line_gizmos[handles.list[g]].colors
                                            = storage[g].list_colors]]
    /\ UNCHANGED <<app, config, render_world,
                   enabled, buffer, builder, chained, asked, built_enabled, calls>>

\* a system writes GizmoConfigStore: excluded while a Gizmos parameter borrows it
SetEnabled(g) ==
    /\ ~panicked
    /\ NoBuilderOpen
    /\ enabled' = [enabled EXCEPT ![g] = ~@]
    /\ last' = [g |-> g, op |-> "set_enabled"]
    /\ UNCHANGED <<app, config, render_world,
                   buffer, builder, storage, handles, line_gizmos, next_index,
                   panicked, chained, drawn, carry, flushed, asked, built_enabled, created, calls, compiles>>

\* init_resource::<GizmoStorage<T>>(): the default value unless the resource exists
init_resource(exists, value) == IF exists THEN value ELSE EmptyBuffer

\* a call of app.init_gizmo_group::<T>() for group g; a group registered for
\* the first time gets its default configuration
InitGizmoGroup(g) ==
    /\ ~panicked
    /\ NoBuilderOpen
    /\ app' = init_gizmo_group(app, g)
    /\ storage' = [storage EXCEPT ![g] = init_resource(app.groups[g].has_storage, @)]
    /\ enabled' = IF app' = app THEN enabled ELSE [enabled EXCEPT ![g] = TRUE]
    /\ config' = IF app' = app THEN config ELSE [config EXCEPT ![g] = DefaultConfig]
    /\ last' = [g |-> g, op |-> "init_gizmo_group", again |-> app.groups[g].has_storage]
    /\ UNCHANGED <<render_world, buffer, builder, handles, line_gizmos, next_index,
                   panicked, chained, drawn, carry, flushed, asked, built_enabled,
                   created, calls, compiles>>

\* the group's Gizmos<T> systems can run and update_gizmo_meshes::<T> is scheduled
Scheduled(g) == app.groups[g].has_storage /\ app.groups[g].update_systems >= 1

GizmoConfigs == {DefaultConfig, [line_width |-> 5 * Unit, depth_bias |-> 0 - Unit]}

\* a system writes the width and the bias of a group's GizmoConfig
SetConfig(g) ==
    /\ ~panicked
    /\ NoBuilderOpen
    /\ \E c \in GizmoConfigs :
          /\ config[g] # c
          /\ config' = [config EXCEPT ![g] = c]
    /\ last' = [g |-> g, op |-> "set_config"]
    /\ UNCHANGED <<app, render_world, enabled, buffer, builder, storage, handles,
                   line_gizmos, next_index, panicked, chained, drawn, carry, flushed,
                   asked, built_enabled, created, calls, compiles>>

\* the entity spawned for a channel whose map holds a handle for g
LineGizmoEntity(map, cfg, g) ==
    IF g \notin DOMAIN map THEN <<>>
    ELSE <<[handle |-> map[g],
            uniform |-> [line_width |-> cfg.line_width, depth_bias |-> cfg.depth_bias]]>>

\* variant: the enabled flag is not looked at
extract_gizmo_data_unguarded(hs, cfg, is_enabled, g) ==
    LineGizmoEntity(hs.list, cfg, g) \o LineGizmoEntity(hs.strip, cfg, g)

\* extract_gizmo_data::<T>: the entities it spawns, none if the group is
\* disabled, else one for the list map and one for the strip map, each if the
\* map holds a handle for T (the handle is cloned weak)
extract_gizmo_data(hs, cfg, is_enabled, g) ==
    IF ~is_enabled THEN <<>>
    ELSE LineGizmoEntity(hs.list, cfg, g) \o LineGizmoEntity(hs.strip, cfg, g)

\* the system extract_gizmo_data::<T> for group g, once per render frame
ExtractGizmoData(g) ==
    /\ ~panicked
    /\ NoBuilderOpen
    /\ app.groups[g].extract_systems >= 1
    /\ g \notin render_world.extracted
    /\ LET spawned == extract_gizmo_data(handles, config[g], enabled[g], g)
       IN  /\ render_world' = [render_world EXCEPT !.entities = @ \o spawned,
                                                   !.extracted = @ \cup {g}]
           /\ last' = [g |-> g, op |-> "extract_gizmo_data", spawned |-> spawned]
    /\ UNCHANGED <<app, config, enabled, buffer, builder, storage, handles,
                   line_gizmos, next_index, panicked, chained, drawn, carry, flushed,
                   asked, built_enabled, created, calls, compiles>>

\* RenderAssetPlugin<LineGizmo>: the render world's assets follow the main
\* world's, each prepared by prepare_asset
PrepareAssets ==
    /\ ~panicked
    /\ LET prepared == [h \in DOMAIN line_gizmos |-> prepare_asset(line_gizmos[h])]
       IN  /\ prepared # render_world.line_gizmos
           /\ render_world' = [render_world EXCEPT !.line_gizmos = prepared]
    /\ last' = [op |-> "prepare_assets"]
    /\ UNCHANGED <<app, config, enabled, buffer, builder, storage, handles,
                   line_gizmos, next_index, panicked, chained, drawn, carry, flushed,
                   asked, built_enabled, created, calls, compiles>>

\* the draw command runs for one extracted entity
Render ==
    /\ ~panicked
    /\ \E i \in 1..Len(render_world.entities) :
          last' = [draw |-> DrawLineGizmo_render(render_world.line_gizmos,
                                                 render_world.entities[i].handle), op |-> "render",
                   entity |-> render_world.entities[i]]
    /\ UNCHANGED <<app, config, render_world, enabled, buffer, builder, storage,
                   handles, line_gizmos, next_index, panicked, chained, drawn, carry,
                   flushed, asked, built_enabled, created, calls, compiles>>

\* the render world drops its entities at the end of the render frame
ClearEntities ==
    /\ ~panicked
    /\ render_world.extracted # {}
    /\ render_world' = [render_world EXCEPT !.entities = <<>>, !.extracted = {}]
    /\ last' = [op |-> "clear_entities"]
    /\ UNCHANGED <<app, config, enabled, buffer, builder, storage, handles,
                   line_gizmos, next_index, panicked, chained, drawn, carry, flushed,
                   asked, built_enabled, created, calls, compiles>>

DrawCall(p) ==
    \/ Line(p) \/ LineGradient(p) \/ Ray(p) \/ RayGradient(p)
    \/ Linestrip(p) \/ LinestripGradient(p) \/ Rect(p) \/ Cuboid(p)
    \/ Line2d(p) \/ LineGradient2d(p) \/ Linestrip2d(p) \/ LinestripGradient2d(p)
    \/ Ray2d(p) \/ RayGradient2d(p) \/ Rect2d(p)

BuilderStep(p) ==
    \/ Circle(p) \/ Sphere(p) \/ Circle2d(p) \/ Arc2d(p)
    \/ Segments(p) \/ Drop(p)

\* The frame pipeline: systems of both groups draw lines and strips, their
\* buffers are flushed and each group's update_gizmo_meshes compiles the store.
Next ==
    \/ \E p \in Producers : Line(p) \/ Linestrip(p) \/ Flush(p)
    \/ \E g \in Groups : UpdateGizmoMeshes(g)

Spec == Init /\ [][Next]_vars

\* The drawing API: the two systems of group G1 issue every drawing call and
\* builder while the group's configuration is switched on and off between them.
NextDraw ==
    \/ \E p \in {"p1", "p2"} : DrawCall(p) \/ BuilderStep(p)
    \/ SetEnabled("G1")

SpecDraw == Init /\ [][NextDraw]_vars

\* A whole frame of one system: it draws into both channels, directly and
\* through a builder, the group's configuration is switched between its runs,
\* its buffer is flushed and the group's update_gizmo_meshes compiles the store.
NextFrame ==
    \/ \E p \in {"p1"} :
          \/ Line(p) \/ Cuboid(p) \/ LinestripGradient(p)
          \/ Circle(p) \/ Segments(p) \/ Drop(p)
          \/ Flush(p)
    \/ UpdateGizmoMeshes("G1")
    \/ SetEnabled("G1")

SpecFrame == Init /\ [][NextFrame]_vars

\* the calls of init_gizmo_group, in the plugin and in application code, around
\* the frames of the groups registered so far
NextApp ==
    \/ \E g \in Groups : InitGizmoGroup(g)
    \/ \E p \in {"p1", "p3"} : Scheduled(group_of(p)) /\ (LineGradient(p) \/ Flush(p))
    \/ \E g \in Groups : Scheduled(g) /\ UpdateGizmoMeshes(g)

SpecApp == InitApp /\ [][NextApp]_vars

\* frames of one producer with the render world's extraction, asset
\* preparation and draw
NextRender ==
    \/ \E p \in {"p1"} : LineGradient(p) \/ Cuboid(p) \/ Flush(p)
    \/ \E g \in {"G1"} :
          \/ UpdateGizmoMeshes(g) \/ SetEnabled(g) \/ SetConfig(g)
          \/ ExtractGizmoData(g)
    \/ PrepareAssets
    \/ Render
    \/ ClearEntities

SpecRender == Init /\ [][NextRender]_vars

\* ------------------------------------------------------------ properties

StripCallOps == {"linestrip", "linestrip_gradient"}

LineCallOps == {"line", "line_gradient", "ray", "ray_gradient",
                "line_2d", "line_gradient_2d", "ray_2d", "ray_gradient_2d"}

BuilderKinds == {"circle", "sphere", "circle_2d", "arc_2d"}

ProducerOps ==
    StripCallOps \cup LineCallOps \cup BuilderKinds
      \cup {"linestrip_2d", "linestrip_gradient_2d", "rect", "rect_2d", "cuboid",
            "segments", "drop"}

\* C1: with the group enabled, a linestrip or linestrip_gradient call with L
\* points grows the producer's strip positions and strip colors by exactly L+1
\* entries: the L points in call order with their colors, then one restart
\* marker pair; the earlier entries are unchanged (L = 0 appends the pair alone).
C1_StripCallAppends ==
    [][(last'.op \in StripCallOps /\ En(last'.p)) =>
        LET p == last'.p
            n == Len(last'.positions)
        IN  /\ Len(buffer'[p].strip_positions) = Len(buffer[p].strip_positions) + n + 1
            /\ Len(buffer'[p].strip_colors) = Len(buffer[p].strip_colors) + n + 1
            /\ buffer'[p].strip_positions =
                    buffer[p].strip_positions
                      \o [i \in 1..n |-> to_array(last'.positions[i])] \o <<NAN3>>
            /\ buffer'[p].strip_colors =
                    buffer[p].strip_colors
                      \o [i \in 1..n |-> as_linear_rgba_f32(last'.colors[i])] \o <<NAN4>>
    ]_vars

C1_Witness ==
    /\ last.op = "linestrip_gradient"
    /\ En(last.p)
    /\ Len(last.positions) = 2
    /\ Len(buffer[last.p].strip_positions) > 3

\* C2: with the group enabled, a line, line_gradient, ray or ray_gradient call
\* (or its 2D variant) grows the list positions and list colors by exactly the
\* start and the end with their colors, leaves the earlier list entries
\* unchanged and leaves the strip channel unchanged.
C2_LineCallAppends ==
    [][(last'.op \in LineCallOps /\ En(last'.p)) =>
        LET p == last'.p
        IN  /\ buffer'[p].list_positions =
                    buffer[p].list_positions
                      \o <<to_array(last'.start), to_array(last'.end)>>
            /\ buffer'[p].list_colors =
                    buffer[p].list_colors
                      \o <<as_linear_rgba_f32(last'.colors[1]),
                           as_linear_rgba_f32(last'.colors[2])>>
            /\ buffer'[p].strip_positions = buffer[p].strip_positions
            /\ buffer'[p].strip_colors = buffer[p].strip_colors
    ]_vars

C2_Witness ==
    /\ last.op = "ray_gradient_2d"
    /\ En(last.p)
    /\ Len(buffer[last.p].list_positions) >= 4

\* C3: a drawing call or builder step made while its group is disabled leaves
\* every producer buffer as it was, so a buffer of length 0 stays at length 0.
C3_DisabledDrawsNothing ==
    [][(last'.op \in ProducerOps /\ ~En(last'.p)) => buffer' = buffer]_vars

C3_Witness ==
    /\ last.op = "cuboid"
    /\ ~En(last.p)
    /\ \A p \in Producers : group_of(p) = group_of(last.p) => buffer[p] = EmptyBuffer

\* C10: with the group enabled, a circle, circle_2d or arc_2d builder appends
\* nothing when it is made or when segments(..) is chained, and appends exactly
\* one strip when it goes out of scope: n+1 points of its color and one marker
\* pair, n being the count last set through segments(..) or else the default
\* (DEFAULT_CIRCLE_SEGMENTS for the circles); the builder is then gone.
C10_BuilderDrawsOnceAtDrop ==
    [][/\ (last'.op \in BuilderKinds \cup {"segments"}) => buffer' = buffer
       /\ (/\ last'.op = "drop"
           /\ last'.kind \in {"circle", "circle_2d", "arc_2d"}
           /\ En(last'.p)) =>
             LET p == last'.p
                 n == IF chained[p] # <<>> THEN chained[p][1]
                      ELSE IF last'.kind = "arc_2d"
                           THEN arc_default_segments(builder[p].arc_angle)
                           ELSE DEFAULT_CIRCLE_SEGMENTS
                 old == buffer[p]
                 new == buffer'[p]
             IN  /\ Len(new.strip_positions) = Len(old.strip_positions) + n + 2
                 /\ SubSeq(new.strip_positions, 1, Len(old.strip_positions))
                        = old.strip_positions
                 /\ new.strip_positions[Len(new.strip_positions)] = NAN3
                 /\ new.strip_colors =
                        old.strip_colors
                          \o Repeat(as_linear_rgba_f32(builder[p].color), n + 1) \o <<NAN4>>
                 /\ new.list_positions = old.list_positions
                 /\ new.list_colors = old.list_colors
                 /\ builder'[p] = NoBuilder
    ]_vars

C10_Witness ==
    /\ last.op = "drop"
    /\ last.kind = "circle_2d"
    /\ last.segments = <<4>>
    /\ En(last.p)
    /\ Len(buffer[last.p].strip_positions) > 6
    /\ builder[last.p] = NoBuilder

\* the buffers of the producers in P among the applied buffers of log,
\* concatenated whole in the order they were applied
RECURSIVE AppliedBy(_, _)
AppliedBy(log, P) ==
    IF log = <<>> THEN EmptyBuffer
    ELSE LET r == AppliedBy(SubSeq(log, 1, Len(log) - 1), P)
             e == log[Len(log)]
         IN  IF e.p \in P
             THEN [list_positions |-> r.list_positions \o e.buffer.list_positions,
                   list_colors |-> r.list_colors \o e.buffer.list_colors,
                   strip_positions |-> r.strip_positions \o e.buffer.strip_positions,
                   strip_colors |-> r.strip_colors \o e.buffer.strip_colors]
             ELSE r

ProducersOf(g) == {p \in Producers : group_of(p) = g}

IsCompile(l) == l.op = "update_gizmo_meshes"

\* C4: a flush appends the producer's whole buffer, in its call order, behind
\* the previous content of each of the four arrays of its group's store and
\* leaves the buffer empty in all four arrays; nothing else changes. Hence the
\* store always equals the buffers applied since the last compile, concatenated
\* whole in flush order, one producer's entries never interleaved with another's.
C4_FlushConcatenates ==
    [][/\ \A g \in Groups : storage'[g] = AppliedBy(flushed'[g], Producers)
       /\ last'.op = "flush" =>
            LET p == last'.p
                g == group_of(p)
            IN  /\ storage'[g].list_positions
                      = storage[g].list_positions \o buffer[p].list_positions
                /\ storage'[g].list_colors
                      = storage[g].list_colors \o buffer[p].list_colors
                /\ storage'[g].strip_positions
                      = storage[g].strip_positions \o buffer[p].strip_positions
                /\ storage'[g].strip_colors
                      = storage[g].strip_colors \o buffer[p].strip_colors
                /\ Len(buffer'[p].list_positions) = 0
                /\ Len(buffer'[p].list_colors) = 0
                /\ Len(buffer'[p].strip_positions) = 0
                /\ Len(buffer'[p].strip_colors) = 0
                /\ \A q \in Producers \ {p} : buffer'[q] = buffer[q]
                /\ \A h \in Groups \ {g} : storage'[h] = storage[h]
    ]_vars

C4_Witness ==
    /\ last.op = "flush"
    /\ LET g == group_of(last.p)
       IN  /\ Len(flushed[g]) = 2
           /\ flushed[g][1].p # flushed[g][2].p
           /\ flushed[g][1].buffer.list_positions # <<>>
           /\ flushed[g][2].buffer.list_positions # <<>>
           /\ Len(storage[g].list_positions) = 4
           /\ \A p \in ProducersOf(g) : buffer[p] = EmptyBuffer

\* C5: when update_gizmo_meshes runs for a group with an empty list (strip)
\* channel, the group has no list (strip) handle afterwards; if it had none
\* before, the handle map is unchanged, no record of that topology is created
\* and the records of that topology are unchanged.
C5_EmptyChannelAbsent ==
    [][IsCompile(last') =>
        LET g == last'.g
        IN  /\ storage[g].list_positions = <<>> =>
                /\ g \notin DOMAIN handles'.list
                /\ g \notin DOMAIN handles.list =>
                      /\ handles'.list = handles.list
                      /\ NewRecords(line_gizmos, line_gizmos', FALSE) = {}
                      /\ \A h \in DOMAIN line_gizmos :
                            ~line_gizmos[h].strip =>
                                /\ h \in DOMAIN line_gizmos'
                                /\ line_gizmos'[h] = line_gizmos[h]
            /\ storage[g].strip_positions = <<>> =>
                /\ g \notin DOMAIN handles'.strip
                /\ g \notin DOMAIN handles.strip =>
                      /\ handles'.strip = handles.strip
                      /\ NewRecords(line_gizmos, line_gizmos', TRUE) = {}
                      /\ \A h \in DOMAIN line_gizmos :
                            line_gizmos[h].strip =>
                                /\ h \in DOMAIN line_gizmos'
                                /\ line_gizmos'[h] = line_gizmos[h]
    ]_vars

C5_Witness ==
    /\ IsCompile(last)
    /\ last.was_empty.list
    /\ last.was_present.list
    /\ last.g \notin DOMAIN handles.list
    /\ last.was_empty.strip
    /\ ~last.was_present.strip
    /\ last.g \notin DOMAIN handles.strip

\* C6: when update_gizmo_meshes runs for a group with a non-empty list (strip)
\* channel, the group has a list (strip) handle afterwards: a handle of a newly
\* created record if it had none, the handle it had and no new record if it had
\* one. Over consecutive compiles with the channel non-empty, exactly one
\* record has been created.
C6_NonEmptyChannelPresent ==
    [][IsCompile(last') =>
        LET g == last'.g
        IN  /\ storage[g].list_positions # <<>> =>
                /\ g \in DOMAIN handles'.list
                /\ IF g \in DOMAIN handles.list
                   THEN /\ handles'.list[g] = handles.list[g]
                        /\ NewRecords(line_gizmos, line_gizmos', FALSE) = {}
                   ELSE /\ handles'.list[g] \notin DOMAIN line_gizmos
                        /\ NewRecords(line_gizmos, line_gizmos', FALSE)
                              = {handles'.list[g]}
                /\ created'.list[g] = 1
            /\ storage[g].strip_positions # <<>> =>
                /\ g \in DOMAIN handles'.strip
                /\ IF g \in DOMAIN handles.strip
                   THEN /\ handles'.strip[g] = handles.strip[g]
                        /\ NewRecords(line_gizmos, line_gizmos', TRUE) = {}
                   ELSE /\ handles'.strip[g] \notin DOMAIN line_gizmos
                        /\ NewRecords(line_gizmos, line_gizmos', TRUE)
                              = {handles'.strip[g]}
                /\ created'.strip[g] = 1
    ]_vars

C6_Witness ==
    /\ IsCompile(last)
    /\ ~last.was_empty.strip
    /\ last.was_present.strip
    /\ last.g \in DOMAIN handles.strip
    /\ created.strip[last.g] = 1
    /\ compiles >= 2

\* C7: after update_gizmo_meshes runs for a group, the record of each channel
\* that was non-empty holds exactly the positions and colors the store's
\* channel held just before, with strip = FALSE for the list channel and
\* strip = TRUE for the strip channel, and the four arrays of the group's
\* store have length 0.
C7_CompileMovesData ==
    [][IsCompile(last') =>
        LET g == last'.g
        IN  /\ storage[g].list_positions # <<>> =>
                /\ g \in DOMAIN handles'.list
                /\ handles'.list[g] \in DOMAIN line_gizmos'
                /\ line_gizmos'[handles'.list[g]] =
                      [positions |-> storage[g].list_positions,
                       colors |-> storage[g].list_colors,
                       strip |-> FALSE]
            /\ storage[g].strip_positions # <<>> =>
                /\ g \in DOMAIN handles'.strip
                /\ handles'.strip[g] \in DOMAIN line_gizmos'
                /\ line_gizmos'[handles'.strip[g]] =
                      [positions |-> storage[g].strip_positions,
                       colors |-> storage[g].strip_colors,
                       strip |-> TRUE]
            /\ Len(storage'[g].list_positions) = 0
            /\ Len(storage'[g].list_colors) = 0
            /\ Len(storage'[g].strip_positions) = 0
            /\ Len(storage'[g].strip_colors) = 0
    ]_vars

C7_Witness ==
    /\ IsCompile(last)
    /\ ~last.was_empty.list
    /\ ~last.was_empty.strip
    /\ storage[last.g] = EmptyBuffer
    /\ last.g \in DOMAIN handles.list
    /\ last.g \in DOMAIN handles.strip
    /\ Len(line_gizmos[handles.list[last.g]].positions) = 2
    /\ Len(line_gizmos[handles.strip[last.g]].positions) = 4
    /\ line_gizmos[handles.strip[last.g]].strip

\* C8 as stated: of two runs of update_gizmo_meshes for a group in a row, with
\* no drawing call and no flush in between, the first on a non-empty channel,
\* the second leaves the same handle and the same record contents as the first.
C8_CompileTwiceInARow ==
    [][(IsCompile(last) /\ IsCompile(last') /\ last'.g = last.g) =>
        LET g == last.g
        IN  /\ ~last.was_empty.list =>
                /\ g \in DOMAIN handles'.list
                /\ handles'.list[g] = handles.list[g]
                /\ line_gizmos'[handles'.list[g]] = line_gizmos[handles.list[g]]
            /\ ~last.was_empty.strip =>
                /\ g \in DOMAIN handles'.strip
                /\ handles'.strip[g] = handles.strip[g]
                /\ line_gizmos'[handles'.strip[g]] = line_gizmos[handles.strip[g]]
    ]_vars

\* C8: when update_gizmo_meshes runs for a group whose channel holds the same
\* non-empty positions and colors as the record its previous run compiled (the
\* geometry was drawn and flushed again in between), the handle is the same and
\* the record contents are identical after the run.
C8_SameContentSameAsset ==
    [][IsCompile(last') =>
        LET g == last'.g
        IN  /\ (~last'.was_empty.list /\ last'.was_same.list) =>
                /\ g \in DOMAIN handles'.list
                /\ handles'.list[g] = handles.list[g]
                /\ line_gizmos'[handles'.list[g]] = line_gizmos[handles.list[g]]
            /\ (~last'.was_empty.strip /\ last'.was_same.strip) =>
                /\ g \in DOMAIN handles'.strip
                /\ handles'.strip[g] = handles.strip[g]
                /\ line_gizmos'[handles'.strip[g]] = line_gizmos[handles.strip[g]]
    ]_vars

C8_Witness ==
    /\ IsCompile(last)
    /\ ~last.was_empty.strip
    /\ last.was_same.strip
    /\ last.g \in DOMAIN handles.strip
    /\ Len(line_gizmos[handles.strip[last.g]].positions) >= 2

\* C9: at a compile of a group all of whose producers have been flushed, in
\* this frame and the one before, each channel's record holds exactly what the
\* group's producers drew since the previous compile, each producer's part in
\* its call order, and nothing older; a channel nothing was drawn into has no
\* handle afterwards; the group's store is empty afterwards.
C9_ImmediateMode ==
    [][(IsCompile(last') /\ last'.all_flushed) =>
        LET g == last'.g
            frame == AppliedBy(flushed[g], ProducersOf(g))
        IN  /\ \A i \in 1..Len(flushed[g]) : flushed[g][i].p \in ProducersOf(g)
            /\ \A p \in ProducersOf(g) : AppliedBy(flushed[g], {p}) = drawn[p]
            /\ IF \A p \in ProducersOf(g) : drawn[p].list_positions = <<>>
               THEN g \notin DOMAIN handles'.list
               ELSE /\ g \in DOMAIN handles'.list
                    /\ line_gizmos'[handles'.list[g]].positions = frame.list_positions
                    /\ line_gizmos'[handles'.list[g]].colors = frame.list_colors
            /\ IF \A p \in ProducersOf(g) : drawn[p].strip_positions = <<>>
               THEN g \notin DOMAIN handles'.strip
               ELSE /\ g \in DOMAIN handles'.strip
                    /\ line_gizmos'[handles'.strip[g]].positions = frame.strip_positions
                    /\ line_gizmos'[handles'.strip[g]].colors = frame.strip_colors
            /\ storage'[g] = EmptyBuffer
    ]_vars

C9_Witness ==
    /\ IsCompile(last)
    /\ last.all_flushed
    /\ last.was_present.list
    /\ last.was_empty.list
    /\ last.g \notin DOMAIN handles.list
    /\ ~last.was_empty.strip
    /\ last.g \in DOMAIN handles.strip
    /\ storage[last.g] = EmptyBuffer
    /\ compiles >= 2

\* C11: a builder (circle, circle_2d, sphere, arc_2d) appends nothing when it
\* goes out of scope if its group was disabled when it was made or is disabled
\* at that moment; the flag an open builder sees is the one it was made under.
C11_DisabledBuilderDrawsNothing ==
    [][/\ \A p \in Producers :
            builder'[p].kind # "none" => built_enabled'[p] = enabled'[group_of(p)]
       /\ (/\ last'.op = "drop"
           /\ (~built_enabled[last'.p] \/ ~En(last'.p))) => buffer' = buffer
    ]_vars

C11_Witness ==
    /\ last.op = "drop"
    /\ last.kind = "sphere"
    /\ ~last.enabled_at_build
    /\ ~En(last.p)
    /\ buffer[last.p] # EmptyBuffer

\* C12 as stated: geometry requested while the group's flag was false is in
\* the channel at flush if the flag is true by then: at a flush made with the
\* flag true, every request since the producer's last flush has drawn.
C12_ToggledOnStillDraws ==
    [][(last'.op = "flush" /\ En(last'.p)) =>
            asked[last'.p].drew = asked[last'.p].made
    ]_vars

\* C12: the flag is read when a drawing operation appends its geometry (at the
\* call, or at a builder's end of scope): the requests that drew are exactly
\* those made with the flag true, toggling the flag changes no buffer, and a
\* flush moves the buffer as it is whatever the flag is then.
C12_FlagReadAtCall ==
    [][/\ \A p \in Producers : asked'[p].drew = asked'[p].made - asked'[p].disabled
       /\ last'.op = "set_enabled" => (buffer' = buffer /\ storage' = storage)
       /\ last'.op = "flush" =>
            LET p == last'.p
                g == group_of(p)
            IN  /\ storage'[g].list_positions
                      = storage[g].list_positions \o buffer[p].list_positions
                /\ storage'[g].strip_positions
                      = storage[g].strip_positions \o buffer[p].strip_positions
                /\ Len(buffer[p].list_positions) + Len(buffer[p].strip_positions) > 0 =>
                      asked[p].drew > 0
    ]_vars

C12_Witness ==
    /\ last.op = "flush"
    /\ En(last.p)
    /\ last.asked.disabled >= 1
    /\ last.asked.drew >= 1
    /\ storage[group_of(last.p)] # EmptyBuffer

\* position i is the restart marker exactly when color i is
MarkersPaired(positions, colors) ==
    /\ Len(positions) = Len(colors)
    /\ \A i \in 1..Len(positions) : (positions[i] = NAN3) <=> (colors[i] = NAN4)

\* C13: in every producer's strip buffer, in every group's strip store and in
\* every strip record, the position at an index is the restart marker if and
\* only if the color at that index is the restart marker (no caller passes a
\* NaN position or color in this model).
C13_MarkersPaired ==
    /\ \A p \in Producers :
          MarkersPaired(buffer[p].strip_positions, buffer[p].strip_colors)
    /\ \A g \in Groups :
          MarkersPaired(storage[g].strip_positions, storage[g].strip_colors)
    /\ \A h \in DOMAIN line_gizmos :
          line_gizmos[h].strip =>
              MarkersPaired(line_gizmos[h].positions, line_gizmos[h].colors)

NoNaN(entries) ==
    \A i \in 1..Len(entries) : \A k \in DOMAIN entries[i] : ~IsNaN(entries[i][k])

\* C14: no entry of a list position or list color array, in a producer's
\* buffer, in a group's store or in a list record, is a restart marker or has a
\* NaN component.
C14_NoMarkerInList ==
    /\ \A p \in Producers :
          NoNaN(buffer[p].list_positions) /\ NoNaN(buffer[p].list_colors)
    /\ \A g \in Groups :
          NoNaN(storage[g].list_positions) /\ NoNaN(storage[g].list_colors)
    /\ \A h \in DOMAIN line_gizmos :
          ~line_gizmos[h].strip =>
              NoNaN(line_gizmos[h].positions) /\ NoNaN(line_gizmos[h].colors)

C14_Witness ==
    /\ "G1" \in DOMAIN handles.list
    /\ "G1" \in DOMAIN handles.strip
    /\ Len(line_gizmos[handles.list["G1"]].positions) = 6
    /\ \E i \in 1..Len(line_gizmos[handles.strip["G1"]].positions) :
          line_gizmos[handles.strip["G1"]].positions[i] = NAN3
    /\ buffer["p1"].list_positions # <<>>
    /\ buffer["p1"].strip_positions = <<>>

Parallel(b) ==
    /\ Len(b.list_positions) = Len(b.list_colors)
    /\ Len(b.strip_positions) = Len(b.strip_colors)

IsPrefix(s, t) == Len(s) <= Len(t) /\ SubSeq(t, 1, Len(s)) = s

\* the colors a drawing operation was given
CallColors(l, bld) ==
    IF l.op = "drop" THEN {bld.color}
    ELSE IF "colors" \in DOMAIN l THEN {l.colors[i] : i \in 1..Len(l.colors)}
    ELSE {}

\* C15: after every step the position and color arrays of each channel have
\* equal length, in every producer's buffer, every group's store and every
\* record; a drawing operation appends as many colors as positions to each
\* channel behind the entries already there, the appended colors being the
\* operation's own (or the marker color), a gradient strip's i-th appended
\* color being the color given with its i-th point.
C15_ParallelArrays ==
    [][/\ \A p \in Producers : Parallel(buffer'[p])
       /\ \A g \in Groups : Parallel(storage'[g])
       /\ \A h \in DOMAIN line_gizmos' :
             Len(line_gizmos'[h].positions) = Len(line_gizmos'[h].colors)
       /\ last'.op \in ProducerOps =>
            LET p == last'.p
                old == buffer[p]
                new == buffer'[p]
                own == {as_linear_rgba_f32(c) : c \in CallColors(last', builder[p])}
                lc == Suffix(new.list_colors, old.list_colors)
                sc == Suffix(new.strip_colors, old.strip_colors)
            IN  /\ IsPrefix(old.list_positions, new.list_positions)
                /\ IsPrefix(old.list_colors, new.list_colors)
                /\ IsPrefix(old.strip_positions, new.strip_positions)
                /\ IsPrefix(old.strip_colors, new.strip_colors)
                /\ Len(new.list_positions) - Len(old.list_positions) = Len(lc)
                /\ Len(new.strip_positions) - Len(old.strip_positions) = Len(sc)
                /\ \A i \in 1..Len(lc) : lc[i] \in own
                /\ \A i \in 1..Len(sc) : sc[i] \in own \cup {NAN4}
                /\ (last'.op = "linestrip_gradient" /\ En(p)) =>
                      \A i \in 1..Len(last'.positions) :
                          /\ new.strip_positions[Len(old.strip_positions) + i]
                                = to_array(last'.positions[i])
                          /\ new.strip_colors[Len(old.strip_colors) + i]
                                = as_linear_rgba_f32(last'.colors[i])
    ]_vars

C15_Witness ==
    /\ IsCompile(last)
    /\ "G1" \in DOMAIN handles.list
    /\ "G1" \in DOMAIN handles.strip
    /\ Len(line_gizmos[handles.list["G1"]].colors) = 6
    /\ Len(line_gizmos[handles.strip["G1"]].colors) = 14

\* C16: for every strip record with N >= 2 entries the draw issues N-1
\* instances, and instance i (from 0) reads positions i and i+1 and colors i
\* and i+1: four views with a stride of one item and attribute offset 0, the
\* second view of each buffer starting one item in.
C16_StripExpansion ==
    \A h \in DOMAIN line_gizmos :
        LET g == line_gizmos[h]
            n == Len(g.positions)
            d == draw_of(g)
            l == layouts_of(g)
        IN  (g.strip /\ n >= 2) =>
              /\ d.instances = n - 1
              /\ Len(l) = 4 /\ Len(d.vertex_buffers) = 4
              /\ \A k \in 1..4 :
                    /\ l[k].array_stride = l[k].attributes[1].format_size
                    /\ l[k].attributes[1].offset = 0
              /\ \A i \in 0..(d.instances - 1) :
                    /\ fetch(d, l, 0, i) = g.positions[i + 1]
                    /\ fetch(d, l, 1, i) = g.positions[i + 2]
                    /\ fetch(d, l, 2, i) = g.colors[i + 1]
                    /\ fetch(d, l, 3, i) = g.colors[i + 2]

C16_Witness ==
    \E h \in DOMAIN line_gizmos :
        /\ line_gizmos[h].strip
        /\ Len(line_gizmos[h].positions) = 8
        /\ draw_of(line_gizmos[h]).instances = 7

\* C17: for every list record with N >= 2 entries the draw issues floor(N/2)
\* instances, and instance i (from 0) reads positions 2i and 2i+1 and colors 2i
\* and 2i+1: two views with a stride of two items and attribute offsets 0 and
\* one item; no entry is read by two instances.
C17_ListExpansion ==
    \A h \in DOMAIN line_gizmos :
        LET g == line_gizmos[h]
            n == Len(g.positions)
            d == draw_of(g)
            l == layouts_of(g)
        IN  (~g.strip /\ n >= 2) =>
              /\ d.instances = n \div 2
              /\ Len(l) = 2 /\ Len(d.vertex_buffers) = 2
              /\ \A k \in 1..2 :
                    /\ l[k].array_stride = 2 * l[k].attributes[1].format_size
                    /\ l[k].attributes[1].offset = 0
                    /\ l[k].attributes[2].offset = l[k].attributes[2].format_size
              /\ \A i \in 0..(d.instances - 1) :
                    /\ fetch(d, l, 0, i) = g.positions[2 * i + 1]
                    /\ fetch(d, l, 1, i) = g.positions[2 * i + 2]
                    /\ fetch(d, l, 2, i) = g.colors[2 * i + 1]
                    /\ fetch(d, l, 3, i) = g.colors[2 * i + 2]
              /\ \A i, j \in 0..(d.instances - 1) :
                    i # j =>
                      {fetch_index(l, 0, i).item, fetch_index(l, 1, i).item}
                        \cap {fetch_index(l, 0, j).item, fetch_index(l, 1, j).item} = {}

C17_Witness ==
    \E h \in DOMAIN line_gizmos :
        /\ ~line_gizmos[h].strip
        /\ Len(line_gizmos[h].positions) = 4
        /\ line_gizmos[h].colors[1] # line_gizmos[h].colors[3]
        /\ draw_of(line_gizmos[h]).instances = 2

\* the instances of the strip draw of a producer's strip buffer that are suppressed
SuppressedIn(b) ==
    LET g == LineGizmo(b.strip_positions, b.strip_colors, TRUE)
    IN  {i \in 0..(draw_of(g).instances - 1) : suppressed(draw_of(g), layouts_of(g), i)}

InstancesOf(b) ==
    draw_of(LineGizmo(b.strip_positions, b.strip_colors, TRUE)).instances

\* a linestrip call of L2 points right behind a linestrip call of L1 points of
\* the same producer that was the first into its strip buffer
TwoStripsBackToBack ==
    /\ last.op = "linestrip"
    /\ last'.op = "linestrip"
    /\ last'.p = last.p
    /\ En(last.p)
    /\ Len(buffer[last.p].strip_positions) = Len(last.positions) + 1

\* C18 as stated: two strips of L1 and L2 points back to back give a strip
\* buffer of length (L1+1)+(L2+1) in which exactly one adjacent-pair instance is
\* suppressed, the one at index L1.
C18_OneSuppressedInstance ==
    [][TwoStripsBackToBack =>
        LET b == buffer'[last'.p]
            L1 == Len(last.positions)
            L2 == Len(last'.positions)
        IN  /\ Len(b.strip_positions) = (L1 + 1) + (L2 + 1)
            /\ SuppressedIn(b) = {L1}
    ]_vars

\* C18: two strips of L1 and L2 points back to back give a strip buffer of
\* length N = (L1+1)+(L2+1) drawn as N-1 adjacent-pair instances, of which those
\* with a marker at either end are suppressed: the pairs (L1-1, L1), (L1, L1+1)
\* and (N-2, N-1), as far as they exist; no other instance joins the two strips
\* and (L1-1)+(L2-1) instances inside the strips stay. A single strip of 3
\* points has the instances 0-1 and 1-2 and the suppressed pair (2, 3).
C18_SuppressedAtMarkers ==
    [][/\ TwoStripsBackToBack =>
            LET b == buffer'[last'.p]
                L1 == Len(last.positions)
                L2 == Len(last'.positions)
                N == (L1 + 1) + (L2 + 1)
                inside(L) == IF L >= 1 THEN L - 1 ELSE 0
            IN  /\ Len(b.strip_positions) = N
                /\ InstancesOf(b) = N - 1
                /\ SuppressedIn(b) = {L1 - 1, L1, N - 2} \cap (0..(N - 2))
                /\ \A i \in (0..(N - 2)) \ SuppressedIn(b) : i + 1 < L1 \/ i > L1
                /\ Cardinality((0..(N - 2)) \ SuppressedIn(b)) = inside(L1) + inside(L2)
       /\ (/\ last'.op = "linestrip"
           /\ Len(last'.positions) = 3
           /\ buffer[last'.p].strip_positions = <<>>) =>
            LET b == buffer'[last'.p]
            IN  /\ Len(b.strip_positions) = 4
                /\ InstancesOf(b) = 3
                /\ SuppressedIn(b) = {2}
    ]_vars

C18_Witness ==
    /\ last.op = "linestrip"
    /\ Len(last.positions) = 3
    /\ Len(buffer[last.p].strip_positions) = 8
    /\ buffer[last.p].strip_positions[4] = NAN3
    /\ SuppressedIn(buffer[last.p]) = {2, 3, 6}

\* the segment count a builder samples with when it goes out of scope
SegmentsUsed(bld) ==
    CASE bld.kind = "sphere" -> bld.circle_segments
      [] bld.kind = "arc_2d" ->
            IF bld.has_segments THEN bld.segments ELSE arc_default_segments(bld.arc_angle)
      [] OTHER -> bld.segments

\* C19: no builder holds a segment count of 0 (a count of 0 is rejected or
\* raised to 1), so that a builder going out of scope with its group enabled
\* samples with at least one segment and appends, per strip, at least 2 points
\* and the marker.
C19_ZeroSegmentsRejected ==
    [][/\ \A p \in Producers :
            (builder'[p].kind # "none" /\ chained'[p] # <<>>) =>
                SegmentsUsed(builder'[p]) >= 1
       /\ (last'.op = "drop" /\ chained[last'.p] # <<>> /\ En(last'.p)) =>
            LET p == last'.p
                strips == IF last'.kind = "sphere" THEN 3 ELSE 1
            IN  /\ SegmentsUsed(builder[p]) >= 1
                /\ Len(buffer'[p].strip_positions) - Len(buffer[p].strip_positions)
                      >= 3 * strips
    ]_vars

\* C20: an arc_2d builder on which no segment count was set samples with
\* ceil(|arc_angle| / TAU * 32) segments, which for |arc_angle| <= TAU is at
\* least 1 and at most 32 and never larger for a shorter arc than for a longer.
C20_ArcDefaultSegments ==
    [][(/\ last'.op = "drop"
        /\ last'.kind = "arc_2d"
        /\ chained[last'.p] = <<>>
        /\ En(last'.p)) =>
            LET p == last'.p
                a == builder[p].arc_angle
                n == Len(buffer'[p].strip_positions) - Len(buffer[p].strip_positions) - 2
            IN  /\ n = CeilDiv(Abs(a) * DEFAULT_CIRCLE_SEGMENTS, TAU)
                /\ Abs(a) <= TAU => (1 <= n /\ n <= DEFAULT_CIRCLE_SEGMENTS)
                /\ \A x \in (0 - TAU)..TAU :
                      Abs(x) <= Abs(a) =>
                          arc_default_segments(x) <= arc_default_segments(a)
    ]_vars

\* the point of a circle of n segments at index i, before it is placed
CirclePoint(radius, n, i) ==
    LET angle == (i * TAU) \div n
    IN  V2(FMul(Sin(angle), radius), FMul(Cos(angle), radius))

\* C21: a circle or circle_2d builder of N >= 1 segments that goes out of scope
\* with its group enabled appends exactly N+2 strip entries: the N+1 points of
\* the sampler, point i at angle i*TAU/N around the centre for i = 0..N, the
\* first and the last equal (angles 0 and a full turn), then one marker.
C21_CircleClosed ==
    [][(/\ last'.op = "drop"
        /\ last'.kind \in {"circle", "circle_2d"}
        /\ En(last'.p)
        /\ builder[last'.p].segments >= 1) =>
            LET p == last'.p
                bld == builder[p]
                n == bld.segments
                old == Len(buffer[p].strip_positions)
                new == buffer'[p].strip_positions
                placed(v) ==
                    IF bld.kind = "circle_2d"
                    THEN to_array(extend(Vec2Add(v, bld.position), 0))
                    ELSE to_array(Vec3Add(bld.position,
                             QuatMulVec3(from_rotation_arc_Z(bld.normal), extend(v, 0))))
            IN  /\ Len(new) = old + n + 2
                /\ \A i \in 0..n : new[old + 1 + i] = placed(CirclePoint(bld.radius, n, i))
                /\ new[old + 1] = new[old + n + 1]
                /\ new[old + 1] # NAN3
                /\ new[old + n + 2] = NAN3
    ]_vars

C21_Witness ==
    /\ last.op = "drop"
    /\ last.kind = "circle"
    /\ last.segments = <<4>>
    /\ En(last.p)
    /\ Len(buffer[last.p].strip_positions) = 6
    /\ buffer[last.p].strip_positions[1] = buffer[last.p].strip_positions[5]
    /\ buffer[last.p].strip_positions[2] # buffer[last.p].strip_positions[1]

\* the component of the array v along the principal axis j
Along(v, j) == v[j]

\* C22: a sphere builder that goes out of scope with its group enabled appends
\* exactly three strips, one circle per principal axis of its rotation, each of
\* circle_segments+1 points of its color followed by one marker pair:
\* 3*(circle_segments+2) strip entries in all, the list arrays unchanged.
C22_SphereThreeCircles ==
    [][(/\ last'.op = "drop"
        /\ last'.kind = "sphere"
        /\ En(last'.p)) =>
            LET p == last'.p
                bld == builder[p]
                n == bld.circle_segments
                old == Len(buffer[p].strip_positions)
                new == buffer'[p]
                first(j) == old + (j - 1) * (n + 2) + 1
                circle(j) == CircleBuilderDrop(EmptyBuffer, TRUE,
                                 [normal |-> QuatMulVec3(bld.rotation, AXES[j]),
                                  color |-> bld.color,
                                  radius |-> bld.radius,
                                  segments |-> n, position |-> bld.position,
                                  kind |-> "circle"])
            IN  /\ Len(new.strip_positions) = old + 3 * (n + 2)
                /\ Len(new.strip_colors) = Len(new.strip_positions)
                /\ SubSeq(new.strip_positions, 1, old) = buffer[p].strip_positions
                /\ \A j \in 1..3 :
                      /\ new.strip_positions[first(j) + n + 1] = NAN3
                      /\ new.strip_colors[first(j) + n + 1] = NAN4
                      /\ \A i \in 0..n :
                            new.strip_colors[first(j) + i] = as_linear_rgba_f32(bld.color)
                      /\ n < DEFAULT_CIRCLE_SEGMENTS =>
                            SubSeq(new.strip_positions, first(j), first(j) + n + 1)
                                = circle(j).strip_positions
                      /\ n >= 1 =>
                            /\ \A i \in 0..n :
                                  Along(new.strip_positions[first(j) + i], j)
                                      = Along(to_array(bld.position), j)
                            /\ new.strip_positions[first(j)]
                                  = new.strip_positions[first(j) + n]
                /\ new.list_positions = buffer[p].list_positions
                /\ new.list_colors = buffer[p].list_colors
    ]_vars

C22_Witness ==
    /\ last.op = "drop"
    /\ last.kind = "sphere"
    /\ last.segments = <<4>>
    /\ En(last.p)
    /\ Len(buffer[last.p].strip_positions) = 18
    /\ buffer[last.p].strip_positions[6] = NAN3
    /\ buffer[last.p].strip_positions[12] = NAN3
    /\ buffer[last.p].strip_positions[18] = NAN3
    /\ buffer[last.p].list_positions = <<>>

\* the group a step works for
TouchedGroup(l) == IF IsCompile(l) \/ l.op = "set_enabled" THEN l.g ELSE group_of(l.p)

\* what a group shows of one channel: its handle and the record behind it
ChannelOf(map, assets, g) ==
    IF g \notin DOMAIN map THEN <<>>
    ELSE IF map[g] \in DOMAIN assets THEN <<map[g], assets[map[g]]>> ELSE <<map[g]>>

\* C25: a drawing call, flush or compile for group T leaves, for every other
\* group U, the buffers of U's producers, U's store, U's list and strip handle
\* and the record behind each unchanged; the records of two groups are never
\* the same record, and a compile of T builds T's records from buffers applied
\* by T's producers alone.
C25_GroupsNeverIntermix ==
    [][LET t == TouchedGroup(last')
       IN  /\ \A u \in Groups \ {t} :
                /\ \A q \in ProducersOf(u) : buffer'[q] = buffer[q]
                /\ storage'[u] = storage[u]
                /\ flushed'[u] = flushed[u]
                /\ ChannelOf(handles'.list, line_gizmos', u)
                      = ChannelOf(handles.list, line_gizmos, u)
                /\ ChannelOf(handles'.strip, line_gizmos', u)
                      = ChannelOf(handles.strip, line_gizmos, u)
           /\ \A g \in Groups, u \in Groups :
                /\ (g \in DOMAIN handles'.list /\ u \in DOMAIN handles'.strip) =>
                      handles'.list[g] # handles'.strip[u]
                /\ (g # u /\ g \in DOMAIN handles'.list /\ u \in DOMAIN handles'.list) =>
                      handles'.list[g] # handles'.list[u]
                /\ (g # u /\ g \in DOMAIN handles'.strip /\ u \in DOMAIN handles'.strip) =>
                      handles'.strip[g] # handles'.strip[u]
           /\ IsCompile(last') =>
                LET own == AppliedBy(flushed[t], ProducersOf(t))
                IN  /\ \A i \in 1..Len(flushed[t]) : group_of(flushed[t][i].p) = t
                    /\ t \in DOMAIN handles'.list =>
                          /\ line_gizmos'[handles'.list[t]].positions = own.list_positions
                          /\ line_gizmos'[handles'.list[t]].colors = own.list_colors
                    /\ t \in DOMAIN handles'.strip =>
                          /\ line_gizmos'[handles'.strip[t]].positions = own.strip_positions
                          /\ line_gizmos'[handles'.strip[t]].colors = own.strip_colors
    ]_vars

C25_Witness ==
    /\ IsCompile(last)
    /\ last.g = "G1"
    /\ "G1" \in DOMAIN handles.list
    /\ "G2" \in DOMAIN handles.list
    /\ handles.list["G1"] # handles.list["G2"]
    /\ line_gizmos[handles.list["G1"]].positions # <<>>
    /\ line_gizmos[handles.list["G2"]].positions # <<>>

\* C26: a drawing call or a builder step of a producer changes neither the
\* store of any group, nor the handles and records, nor the buffer or the open
\* builder of another producer; whatever the interleaving, a producer's buffer
\* holds exactly what its own calls appended, in its call order.
C26_CallsTouchOwnBuffer ==
    [][/\ last'.op \in ProducerOps =>
            /\ storage' = storage
            /\ handles' = handles
            /\ line_gizmos' = line_gizmos
            /\ \A q \in Producers \ {last'.p} :
                  /\ buffer'[q] = buffer[q]
                  /\ builder'[q] = builder[q]
            /\ IsPrefix(buffer[last'.p].list_positions, buffer'[last'.p].list_positions)
            /\ IsPrefix(buffer[last'.p].strip_positions, buffer'[last'.p].strip_positions)
       /\ \A p \in Producers : buffer'[p] = drawn'[p]
    ]_vars

C26_Witness ==
    /\ last.op \in ProducerOps
    /\ last.p = "p2"
    /\ buffer["p1"] # EmptyBuffer
    /\ buffer["p2"] # EmptyBuffer
    /\ buffer["p1"] # buffer["p2"]
    /\ \A g \in Groups : storage[g] = EmptyBuffer

\* the indices i whose entries i and i+1 are both free of the restart marker
FreePairs(positions) ==
    {i \in 1..(Len(positions) - 1) : positions[i] # NAN3 /\ positions[i + 1] # NAN3}

EndsWithMarker(positions) == positions = <<>> \/ positions[Len(positions)] = NAN3

\* the set S of indices moved up by n
Shifted(S, n) == {i + n : i \in S}

\* C28: every strip array (buffer, store, record) that is not empty ends with
\* a marker. A drawing call adds no marker-free pair at or before the end of
\* what the buffer held, and a linestrip call of L points adds exactly the L-1
\* pairs of its own consecutive points; a flush adds to the store exactly the
\* buffer's pairs, moved up, and none across the join; a compile hands the
\* store's pairs to the record. So no pair joins two strips or two producers.
C28_NoCrossStripJoins ==
    [][/\ \A p \in Producers : EndsWithMarker(buffer'[p].strip_positions)
       /\ \A g \in Groups :
            /\ EndsWithMarker(storage'[g].strip_positions)
            /\ g \in DOMAIN handles'.strip =>
                  EndsWithMarker(line_gizmos'[handles'.strip[g]].positions)
       /\ (last'.op \in ProducerOps /\ last'.op # "segments") =>
            LET p == last'.p
                old == buffer[p].strip_positions
                new == buffer'[p].strip_positions
            IN  /\ IsPrefix(old, new)
                /\ FreePairs(new) \cap (1..Len(old)) = FreePairs(old)
                /\ (last'.op \in StripCallOps /\ En(p)) =>
                      /\ FreePairs(new) =
                            FreePairs(old) \cup Shifted(1..(Len(last'.positions) - 1), Len(old))
                      /\ \A i \in 1..Len(last'.positions) :
                            new[Len(old) + i] = to_array(last'.positions[i])
       /\ last'.op = "flush" =>
            LET g == group_of(last'.p)
                old == storage[g].strip_positions
                new == storage'[g].strip_positions
            IN  /\ FreePairs(new) =
                      FreePairs(old)
                        \cup Shifted(FreePairs(buffer[last'.p].strip_positions), Len(old))
                /\ Len(old) \notin FreePairs(new)
       /\ (IsCompile(last') /\ ~last'.was_empty.strip) =>
            LET g == last'.g
                strips == line_gizmos'[handles'.strip[g]].positions
                frame == AppliedBy(flushed[g], ProducersOf(g)).strip_positions
            IN  /\ FreePairs(strips) = FreePairs(storage[g].strip_positions)
                /\ Cardinality(FreePairs(strips)) = Cardinality(FreePairs(frame))
    ]_vars

C28_Witness ==
    /\ last.op = "flush"
    /\ LET g == group_of(last.p)
           strips == storage[g].strip_positions
       IN  /\ Len(flushed[g]) = 2
           /\ flushed[g][1].p # flushed[g][2].p
           /\ Len(flushed[g][1].buffer.strip_positions) = 4
           /\ Len(flushed[g][2].buffer.strip_positions) = 4
           /\ Len(strips) = 8
           /\ strips[4] = NAN3
           /\ strips[5] # NAN3
           /\ FreePairs(strips) = {1, 2, 5, 6}

\* C29: update_gizmo_meshes never panics: every handle in the list or strip
\* handle map refers to a record of the asset collection, of that topology, so
\* get_mut(handle).unwrap() always finds the record.
C29_HandlesResolve ==
    /\ ~panicked
    /\ \A g \in Groups :
          /\ g \in DOMAIN handles.list =>
                /\ handles.list[g] \in DOMAIN line_gizmos
                /\ ~line_gizmos[handles.list[g]].strip
          /\ g \in DOMAIN handles.strip =>
                /\ handles.strip[g] \in DOMAIN line_gizmos
                /\ line_gizmos[handles.strip[g]].strip

C29_Witness ==
    /\ IsCompile(last)
    /\ last.was_present.list
    /\ ~last.was_empty.list
    /\ ~last.was_same.list
    /\ ~panicked
    /\ compiles >= 2
    /\ handles.list[last.g] \in DOMAIN line_gizmos

\* C30: a flush changes no handle and no record and puts the buffer behind
\* what the store holds; the store of a group changes at no other step but its
\* compile. A flush that comes right after its group's compile (the buffer was
\* not flushed in time) finds the store empty and becomes the first applied
\* buffer of the next frame. A compile builds each record from the buffers
\* applied since the previous compile, each once, in the order applied, so
\* the late buffer comes first, and leaves the store empty.
C30_LateFlushKept ==
    [][/\ last'.op = "flush" =>
            LET p == last'.p
                g == group_of(p)
            IN  /\ handles' = handles
                /\ line_gizmos' = line_gizmos
                /\ storage'[g].list_positions
                      = storage[g].list_positions \o buffer[p].list_positions
                /\ storage'[g].strip_positions
                      = storage[g].strip_positions \o buffer[p].strip_positions
                /\ flushed'[g] = Append(flushed[g], [p |-> p, buffer |-> buffer[p]])
                /\ (IsCompile(last) /\ last.g = g) =>
                      /\ storage'[g] = buffer[p]
                      /\ Len(flushed'[g]) = 1
       /\ \A g \in Groups :
            ~((last'.op = "flush" /\ group_of(last'.p) = g)
                \/ (IsCompile(last') /\ last'.g = g)) => storage'[g] = storage[g]
       /\ IsCompile(last') =>
            LET g == last'.g
                log == flushed[g]
                all == AppliedBy(log, Producers)
            IN  /\ storage'[g] = EmptyBuffer
                /\ flushed'[g] = <<>>
                /\ ~last'.was_empty.list =>
                      /\ line_gizmos'[handles'.list[g]].positions = all.list_positions
                      /\ line_gizmos'[handles'.list[g]].colors = all.list_colors
                      /\ IsPrefix(log[1].buffer.list_positions,
                                  line_gizmos'[handles'.list[g]].positions)
                /\ ~last'.was_empty.strip =>
                      /\ line_gizmos'[handles'.strip[g]].positions = all.strip_positions
                      /\ line_gizmos'[handles'.strip[g]].colors = all.strip_colors
                      /\ IsPrefix(log[1].buffer.strip_positions,
                                  line_gizmos'[handles'.strip[g]].positions)
    ]_vars

\* a compile none of whose producers holds anything, though one did at the
\* compile before: that buffer was flushed in between, one frame late
C30_Witness ==
    /\ IsCompile(last)
    /\ ~last.all_flushed
    /\ \A p \in ProducersOf(last.g) : buffer[p] = EmptyBuffer
    /\ ~last.was_empty.list
    /\ last.was_present.list
    /\ Len(line_gizmos[handles.list[last.g]].positions) = 2
    /\ compiles >= 2

\* the first n entries of a record, given a topology
Truncated(g, n, strip) ==
    LineGizmo(SubSeq(g.positions, 1, n), SubSeq(g.colors, 1, n), strip)

InRange(r) == 0 <= r.from /\ r.from <= r.to /\ r.to <= r.size

\* C23: the draw of a record with 0 or 1 entries, of either topology, reports
\* Success, issues no draw (zero instances) and slices no buffer, so no range
\* that is negative or beyond the buffer is formed; this holds of every record
\* reached with fewer than 2 entries and of every record cut down to 0 or 1.
C23_ShortAssetDrawsNothing ==
    \A h \in DOMAIN line_gizmos :
        /\ Len(line_gizmos[h].positions) < 2 =>
              draw_of(line_gizmos[h]) = NoDraw("Success")
        /\ \A n \in 0..1, strip \in BOOLEAN :
              LET d == draw_of(Truncated(line_gizmos[h], n, strip))
              IN  /\ d.result = "Success"
                  /\ d.instances = 0
                  /\ d.draws = 0
                  /\ \A k \in 1..Len(d.slices) : InRange(d.slices[k])
        /\ \A k \in 1..Len(draw_of(line_gizmos[h]).slices) :
              InRange(draw_of(line_gizmos[h]).slices[k])

C23_Witness ==
    \E h \in DOMAIN line_gizmos :
        /\ line_gizmos[h].strip
        /\ Len(line_gizmos[h].positions) = 1
        /\ draw_of(line_gizmos[h]).result = "Success"
        /\ draw_of(line_gizmos[h]).instances = 0
        /\ draw_of(line_gizmos[h]).slices = <<>>

\* what the frames of the main world hold
MainWorld == <<enabled, config, buffer, storage, handles, line_gizmos>>

\* C24 as stated: after any call of init_gizmo_group for a group, the first or
\* a later one, the group has exactly one store, one update_gizmo_meshes
\* system, one extraction system and one configuration entry, and a call for
\* a group that has its store changes nothing.
C24_ExactlyOneOfEach ==
    [][last'.op = "init_gizmo_group" =>
        LET g == last'.g
        IN  /\ app'.groups[g] =
                  [has_storage |-> TRUE, update_systems |-> 1, extract_systems |-> 1,
                   config_entries |-> 1]
            /\ last'.again => (app' = app /\ MainWorld' = MainWorld)
    ]_vars

\* C24: after any call of init_gizmo_group for a group, the first or a later
\* one, the group has exactly one store, one update_gizmo_meshes system, one
\* configuration entry and, if the app has a render sub-app, one extraction
\* system (none if it has not); the other groups are as before, and a call for
\* a group that has its store changes nothing, the store's contents included.
C24_RegistrationIdempotent ==
    [][last'.op = "init_gizmo_group" =>
        LET g == last'.g
        IN  /\ app'.groups[g] =
                  [has_storage |-> TRUE, update_systems |-> 1,
                   extract_systems |-> IF app.render_app THEN 1 ELSE 0,
                   config_entries |-> 1]
            /\ app'.render_app = app.render_app
            /\ \A u \in Groups \ {g} : app'.groups[u] = app.groups[u]
            /\ storage' = storage
            /\ last'.again => (app' = app /\ MainWorld' = MainWorld)
    ]_vars

C24_Witness ==
    /\ last.op = "init_gizmo_group"
    /\ last.again
    /\ storage[last.g] # EmptyBuffer
    /\ handles.list # <<>>
    /\ app.groups[last.g].update_systems = 1
    /\ app.groups[last.g].extract_systems = 1

\* how many of the maps list and strip hold a handle for g
PresentChannels(hs, g) ==
    (IF g \in DOMAIN hs.list THEN 1 ELSE 0) + (IF g \in DOMAIN hs.strip THEN 1 ELSE 0)

\* C27: extract_gizmo_data for a group spawns nothing if the group is disabled,
\* whatever handles it has; if it is enabled it spawns exactly one entity per
\* channel that has a handle, the list one first, none for a channel without,
\* each with that channel's handle and the line_width and depth_bias the
\* configuration holds at that moment. It changes neither the configuration nor
\* the handle maps nor the records. The draw of an entity whose handle has no
\* prepared asset reports Failure and sets and draws nothing.
C27_Submission ==
    [][/\ last'.op = "extract_gizmo_data" =>
            LET g == last'.g
                spawned == Suffix(render_world'.entities, render_world.entities)
            IN  /\ IsPrefix(render_world.entities, render_world'.entities)
                /\ ~enabled[g] => spawned = <<>>
                /\ enabled[g] =>
                      /\ Len(spawned) = PresentChannels(handles, g)
                      /\ \A i \in 1..Len(spawned) :
                            /\ spawned[i].uniform.line_width = config[g].line_width
                            /\ spawned[i].uniform.depth_bias = config[g].depth_bias
                      /\ g \in DOMAIN handles.list =>
                            spawned[1].handle = handles.list[g]
                      /\ g \in DOMAIN handles.strip =>
                            spawned[Len(spawned)].handle = handles.strip[g]
                      /\ \A i, j \in 1..Len(spawned) :
                            i # j => spawned[i].handle # spawned[j].handle
                /\ enabled' = enabled
                /\ config' = config
                /\ handles' = handles
                /\ line_gizmos' = line_gizmos
                /\ render_world'.line_gizmos = render_world.line_gizmos
       /\ last'.op = "render" =>
            LET h == last'.entity.handle
                d == last'.draw
            IN  IF h \in DOMAIN render_world.line_gizmos
                THEN /\ d.result = "Success"
                     /\ d.draws = IF render_world.line_gizmos[h].vertex_count < 2
                                  THEN 0 ELSE 1
                ELSE /\ d.result = "Failure"
                     /\ d.draws = 0
                     /\ d.instances = 0
                     /\ d.vertex_buffers = <<>>
    ]_vars

\* both channels were extracted under a changed configuration and the draw of
\* one of the two entities found no prepared asset
C27_Witness ==
    /\ last.op = "render"
    /\ last.draw.result = "Failure"
    /\ Len(render_world.entities) = 2
    /\ render_world.entities[1].handle # render_world.entities[2].handle
    /\ \A i \in 1..2 :
          /\ render_world.entities[i].uniform.line_width = 5 * Unit
          /\ render_world.entities[i].uniform.depth_bias = 0 - Unit

\* a disabled group with both handles was extracted and nothing was spawned
DisabledGroupExtracted ==
    /\ last.op = "extract_gizmo_data"
    /\ ~enabled[last.g]
    /\ last.g \in DOMAIN handles.list
    /\ last.g \in DOMAIN handles.strip
    /\ render_world.entities = <<>>

\* an enabled group with a list handle and no strip handle was extracted
OneChannelExtracted ==
    /\ last.op = "extract_gizmo_data"
    /\ enabled[last.g]
    /\ last.g \in DOMAIN handles.list
    /\ last.g \notin DOMAIN handles.strip
    /\ Len(render_world.entities) = 1

\* the pairs a list draw expands an array into: entries 2i-1 and 2i, i from 1
Pairs(positions) ==
    [i \in 1..(Len(positions) \div 2) |-> <<positions[2 * i - 1], positions[2 * i]>>]

Even(n) == n % 2 = 0

\* the corner of the unit box at the given signs of x, y and z, as the
\* transform places it
Corner(transform, sx, sy, sz) ==
    to_array(transform_point(transform,
                 V3(sx * (Unit \div 2), sy * (Unit \div 2), sz * (Unit \div 2))))

\* the segments the drawing call l hands to the list channel
ListSegments(l) ==
    IF l.op \in LineCallOps
    THEN << <<to_array(l.start), to_array(l.end)>> >>
    ELSE IF l.op = "cuboid"
    THEN << <<Corner(l.transform, 1, 1, 1), Corner(l.transform, 1, 1, 0 - 1)>>,
            <<Corner(l.transform, 1, 0 - 1, 1), Corner(l.transform, 1, 0 - 1, 0 - 1)>>,
            <<Corner(l.transform, 0 - 1, 0 - 1, 1), Corner(l.transform, 0 - 1, 0 - 1, 0 - 1)>> >>
    ELSE <<>>

\* C31: every list array (producer buffer, store, list record) has an even
\* length and as many colors as positions. A drawing call appends to the pairs
\* of its buffer exactly its own segments, each as one pair of start and end; a
\* flush appends the buffer's pairs whole behind the store's pairs; a compile
\* hands the store's pairs to the record. The list draw of a record of N
\* entries issues N/2 instances, instance i reading pair i+1, so every entry
\* is read and no instance joins endpoints of two segments.
C31_ListPairing ==
    [][/\ \A p \in Producers :
            /\ Even(Len(buffer'[p].list_positions))
            /\ Len(buffer'[p].list_colors) = Len(buffer'[p].list_positions)
       /\ \A g \in Groups :
            /\ Even(Len(storage'[g].list_positions))
            /\ Len(storage'[g].list_colors) = Len(storage'[g].list_positions)
            /\ g \in DOMAIN handles'.list =>
                 LET r == line_gizmos'[handles'.list[g]]
                     n == Len(r.positions)
                     d == draw_of(r)
                     l == layouts_of(r)
                 IN  /\ Even(n) /\ n >= 2
                     /\ Len(r.colors) = n
                     /\ d.draws = 1
                     /\ 2 * d.instances = n
                     /\ \A i \in 0..(d.instances - 1) :
                           <<fetch(d, l, 0, i), fetch(d, l, 1, i)>> = Pairs(r.positions)[i + 1]
       /\ (last'.op \in ProducerOps) =>
            LET p == last'.p
                old == buffer[p].list_positions
                new == buffer'[p].list_positions
            IN  Pairs(new) = Pairs(old) \o (IF En(p) THEN ListSegments(last') ELSE <<>>)
       /\ last'.op = "flush" =>
            LET p == last'.p
                g == group_of(p)
                old == storage[g].list_positions
                new == storage'[g].list_positions
            IN  /\ Pairs(new) = Pairs(old) \o Pairs(buffer[p].list_positions)
                /\ Len(new) = Len(old) + Len(buffer[p].list_positions)
       /\ (IsCompile(last') /\ ~last'.was_empty.list) =>
            LET g == last'.g
                r == line_gizmos'[handles'.list[g]]
            IN  /\ Pairs(r.positions) = Pairs(storage[g].list_positions)
                /\ Len(r.positions) = Len(storage[g].list_positions)
                /\ \A k \in 1..Len(flushed[g]) :
                      LET off == Len(AppliedBy(SubSeq(flushed[g], 1, k - 1),
                                               Producers).list_positions)
                          b == flushed[g][k].buffer.list_positions
                      IN  /\ Even(off)
                          /\ SubSeq(Pairs(r.positions), off \div 2 + 1,
                                    (off + Len(b)) \div 2) = Pairs(b)
    ]_vars

C31_Witness ==
    /\ last.op = "flush"
    /\ LET g == group_of(last.p)
           lists == storage[g].list_positions
       IN  /\ Len(flushed[g]) = 2
           /\ flushed[g][1].p # flushed[g][2].p
           /\ Pairs(flushed[g][1].buffer.list_positions)
                 = << <<to_array(PA), to_array(PB)>> >>
           /\ Pairs(flushed[g][2].buffer.list_positions)
                 = << <<to_array(PA), to_array(PB)>> >>
           /\ Pairs(lists) = << <<to_array(PA), to_array(PB)>>,
                                <<to_array(PA), to_array(PB)>> >>
           /\ <<lists[2], lists[3]>> = <<to_array(PB), to_array(PA)>>
           /\ storage[g].list_colors[1] # storage[g].list_colors[3]

Signs == {1, 0 - 1}

\* the 8 corners of the unit box as the transform places them
Corners(transform) ==
    {Corner(transform, sx, sy, sz) : sx \in Signs, sy \in Signs, sz \in Signs}

\* the 12 edges of that box: two corners that differ in the sign of one axis
BoxEdges(transform) ==
    {{Corner(transform, 1, a, b), Corner(transform, 0 - 1, a, b)} : a \in Signs, b \in Signs}
      \cup {{Corner(transform, a, 1, b), Corner(transform, a, 0 - 1, b)} : a \in Signs, b \in Signs}
      \cup {{Corner(transform, a, b, 1), Corner(transform, a, b, 0 - 1)} : a \in Signs, b \in Signs}

\* C32: with the group enabled, a cuboid call appends 11 strip entries, the
\* last being the only marker, and 6 list entries, each with the call's color
\* or the marker color. The 9 adjacent pairs of the strip's points are 9
\* different unordered pairs, the 3 list pairs are 3 more, and the 12 together
\* are exactly the 12 edges of the box on its 8 distinct corners.
C32_CuboidEdges ==
    [][(last'.op = "cuboid" /\ En(last'.p)) =>
          LET p == last'.p
              t == last'.transform
              strips == Suffix(buffer'[p].strip_positions, buffer[p].strip_positions)
              lists == Suffix(buffer'[p].list_positions, buffer[p].list_positions)
              strip_edges == {{strips[i], strips[i + 1]} : i \in 1..9}
              list_edges == {{lists[2 * i - 1], lists[2 * i]} : i \in 1..3}
              box == BoxEdges(t)
          IN  /\ IsPrefix(buffer[p].strip_positions, buffer'[p].strip_positions)
              /\ IsPrefix(buffer[p].list_positions, buffer'[p].list_positions)
              /\ Len(strips) = 11
              /\ Len(lists) = 6
              /\ strips[11] = NAN3
              /\ FreePairs(strips) = 1..9
              /\ NoNaN(lists)
              /\ Suffix(buffer'[p].strip_colors, buffer[p].strip_colors)
                    = Repeat(as_linear_rgba_f32(last'.colors[1]), 10) \o <<NAN4>>
              /\ Suffix(buffer'[p].list_colors, buffer[p].list_colors)
                    = Repeat(as_linear_rgba_f32(last'.colors[1]), 6)
              /\ Cardinality(Corners(t)) = 8
              /\ Cardinality(box) = 12
              /\ Cardinality(strip_edges) = 9
              /\ Cardinality(list_edges) = 3
              /\ strip_edges \cap list_edges = {}
              /\ strip_edges \cup list_edges = box
    ]_vars

C32_Witness ==
    /\ last.op = "cuboid"
    /\ En(last.p)
    /\ Len(buffer[last.p].strip_positions) = 22
    /\ Len(buffer[last.p].list_positions) = 12
    /\ Cardinality(BoxEdges(last.transform)) = 12
    /\ {buffer[last.p].strip_positions[11 + i] : i \in 1..10} = Corners(last.transform)

====
